---- MODULE Spec2Model ----
(***************************************************************************)
(* A state-machine model of the nonvalid validation engine                 *)
(* (createInstance in nonvalid.js).  The JavaScript call stack of one      *)
(* validator instance is the variable `stack`; the instance's closure      *)
(* variables keep their names.  Schema callbacks are user code: what a     *)
(* callback does (return, throw, catch, call the validator again) is       *)
(* chosen nondeterministically.                                            *)
(***************************************************************************)
EXTENDS Integers, Sequences, FiniteSets, TLC

(***************************************************************************)
(* JavaScript values                                                       *)
(***************************************************************************)
Undef == [t |-> "undefined"]
Null == [t |-> "null"]
False == [t |-> "boolean", b |-> FALSE]
True == [t |-> "boolean", b |-> TRUE]
Num(n) == [t |-> "number", n |-> n]
Str(s) == [t |-> "string", s |-> s]
Sym(s) == [t |-> "symbol", s |-> s]
Fn(i) == [t |-> "function", id |-> i]
\* an object is its own properties in definition order, an array its slots
Obj(e) == [t |-> "object", e |-> e]
Arr(e) == [t |-> "array", e |-> e]
\* an array slot that was never assigned (as in [a, , b])
Hole == [t |-> "hole"]
P(k, v) == [key |-> k, val |-> v]

\* ToBoolean
Truthy(v) ==
    CASE v.t = "boolean" -> v.b
      [] v.t = "number" -> v.n # 0
      [] v.t = "string" -> v.s # ""
      [] v.t \in {"undefined", "null", "NaN"} -> FALSE
      [] OTHER -> TRUE

\* a || b
OrElse(a, b) == IF Truthy(a) THEN a ELSE b

matcher_undefined(v) == v.t = "undefined"
matcher_defined(v) == v.t # "undefined"
matcher_string(v) == v.t = "string"
matcher_number(v) == v.t = "number"
matcher_symbol(v) == v.t = "symbol"
matcher_function(v) == v.t = "function"
matcher_array(v) == v.t = "array"
matcher_object(v) == v.t = "object"

symbols == [other |-> Sym("nonvalid.other"), error |-> Sym("nonvalid.error"),
            end |-> Sym("nonvalid.end")]
symbolList == {symbols.other, symbols.error, symbols.end}

\* the strings that are canonical non-negative integers, in ascending order
IndexStrings == <<"0", "1", "2">>
IsIndexKey(k) == k.t = "string" /\ \E i \in 1..Len(IndexStrings) : IndexStrings[i] = k.s

\* members every ordinary object inherits from Object.prototype
ObjectPrototypeKeys == {Str("toString")}
InheritedMember == Fn(0)

hasProperty(object, property) ==
    CASE object.t = "object" -> \E i \in 1..Len(object.e) : object.e[i].key = property
      [] object.t = "array" ->
            /\ property.t = "number"
            /\ property.n >= 0 /\ property.n < Len(object.e)
            /\ object.e[property.n + 1] # Hole
      [] OTHER -> FALSE

\* object[property], for an object or an array
Get(object, property) ==
    CASE object.t = "object" ->
            IF hasProperty(object, property)
            THEN LET i == CHOOSE j \in 1..Len(object.e) : object.e[j].key = property
                 IN object.e[i].val
            ELSE IF property \in ObjectPrototypeKeys THEN InheritedMember ELSE Undef
      [] object.t = "array" ->
            IF hasProperty(object, property) THEN object.e[property.n + 1] ELSE Undef
      [] OTHER -> Undef

\* Object.entries(object): integer-like keys ascending, then other strings in
\* definition order
ObjectEntries(object) ==
    LET e == object.e
        Ix[i \in 0..Len(IndexStrings)] ==
            IF i = 0 THEN <<>>
            ELSE Ix[i - 1] \o SelectSeq(e, LAMBDA x : x.key = Str(IndexStrings[i]))
    IN Ix[Len(IndexStrings)]
       \o SelectSeq(e, LAMBDA x : x.key.t = "string" /\ ~IsIndexKey(x.key))

\* the symbol keys ahead of the string keys (for C7)
allEntries_symbolsFirst(object) ==
    SelectSeq(object.e, LAMBDA x : x.key.t = "symbol") \o ObjectEntries(object)

allEntries(object) ==
    ObjectEntries(object) \o SelectSeq(object.e, LAMBDA x : x.key.t = "symbol")


(***************************************************************************)
(* Schema validation (pure parts of inspectObject / inspectArray)          *)
(***************************************************************************)
NONFUNC == "The catch-other callback must be a function"
NONVALID == "The shape error must be a non-function truthy value"
UNEXPECTED_OBJECT == "Symbol(nonvalid.end) is not expected in an object schema"
UNEXPECTED_OTHER == "Symbol(nonvalid.other) is not expected in an array schema"
UNEXPECTED_ERROR == "Symbol(nonvalid.error) is not expected in an array schema"
MANYEXTRA == "Found more than 2 elements after the end-of-array marker"
MANYENDS == "Encountered multiple end-of-array markers"
MANYFUNCS == "Encountered multiple catch-other callbacks"
MANYERRORS == "Encountered multiple shape error values"
FALSY == "Shape error must be a truthy value"
ANOTHER == "To validate another value, use nonvalid.instance()"
NOCONTEXT == "Validator called with no value outside of any context"
CANTPROCEED == "Cannot proceed with validation after an error"
CUSTOM == "custom"

\* the result of a schema check: error = "" when the schema is well formed
Checked(error, maxIndex, catchOther, shapeError) ==
    [error |-> error, maxIndex |-> maxIndex, catchOther |-> catchOther,
     shapeError |-> shapeError]

\* a schema check that lets any catch-other entry and any shape error pass (for C11)
validateObjectSchema_lenient(schema) ==
    Checked("", 0, Get(schema, symbols.other), Get(schema, symbols.error))

validateObjectSchema(schema) ==
    LET catchOther == Get(schema, symbols.other)
        shapeError == Get(schema, symbols.error)
    IN  IF ~matcher_undefined(catchOther) /\ ~matcher_function(catchOther)
        THEN Checked(NONFUNC, 0, Undef, Undef)
        ELSE IF matcher_defined(shapeError)
                /\ (matcher_function(shapeError) \/ ~Truthy(shapeError))
        THEN Checked(NONVALID, 0, Undef, Undef)
        ELSE IF \E i \in 1..Len(schema.e) :
                    /\ schema.e[i].key.t = "symbol"
                    /\ schema.e[i].key # symbols.other
                    /\ schema.e[i].key # symbols.error
                    /\ schema.e[i].key \in symbolList
        THEN Checked(UNEXPECTED_OBJECT, 0, Undef, Undef)
        ELSE Checked("", 0, catchOther, shapeError)

\* the while loop of validateArraySchema: the first index that is a hole, is
\* past the end, or holds the end marker
RECURSIVE EndIndex(_, _)
EndIndex(schema, i) ==
    IF hasProperty(schema, Num(i)) /\ Get(schema, Num(i)) # symbols.end
    THEN EndIndex(schema, i + 1)
    ELSE i

\* the for loop of validateArraySchema over the elements after the end marker
RECURSIVE AfterEnd(_, _, _, _, _)
AfterEnd(schema, index, maxIndex, functional, truthy) ==
    IF index >= Len(schema.e) THEN Checked("", maxIndex, functional, truthy)
    ELSE IF ~hasProperty(schema, Num(index)) \/ Get(schema, Num(index)) = symbols.end
    THEN Checked(MANYENDS, 0, Undef, Undef)
    ELSE LET value == Get(schema, Num(index))
         IN  IF matcher_function(value)
             THEN IF matcher_defined(functional)
                  THEN Checked(MANYFUNCS, 0, Undef, Undef)
                  ELSE AfterEnd(schema, index + 1, maxIndex, value, truthy)
             ELSE IF Truthy(value)
             THEN IF matcher_defined(truthy)
                  THEN Checked(MANYERRORS, 0, Undef, Undef)
                  ELSE AfterEnd(schema, index + 1, maxIndex, functional, value)
             ELSE Checked(FALSY, 0, Undef, Undef)

validateArraySchema(schema) ==
    LET reserved == {i \in 1..Len(schema.e) :
                        /\ matcher_symbol(schema.e[i])
                        /\ schema.e[i] # symbols.end
                        /\ schema.e[i] \in symbolList}
    IN
    IF reserved # {}
    THEN LET first == CHOOSE i \in reserved : \A j \in reserved : i <= j
         IN  Checked(IF schema.e[first] = symbols.other THEN UNEXPECTED_OTHER
                     ELSE UNEXPECTED_ERROR, 0, Undef, Undef)
    ELSE LET endIndex == EndIndex(schema, 0)
         IN  IF Len(schema.e) > endIndex + 3
             THEN Checked(MANYEXTRA, 0, Undef, Undef)
             ELSE AfterEnd(schema, endIndex + 1, endIndex, Undef, Undef)

(***************************************************************************)
(* The loops of inspectObject and inspectArray, run from a position up to  *)
(* the next call of inspectKey or to the return.                           *)
(***************************************************************************)
Call(key, sub, val, ph, i) ==
    [act |-> "call", key |-> key, sub |-> sub, val |-> val, ph |-> ph, i |-> i]
Return(v) ==
    [act |-> "return", key |-> Undef, sub |-> Undef, val |-> v, ph |-> 0, i |-> 0]

RECURSIVE objectNext(_, _, _, _, _)
objectNext(schema, value, catchOther, ph, i) ==
    IF ph = 1
    THEN LET es == allEntries(schema)
         IN  IF i > Len(es) THEN objectNext(schema, value, catchOther, 2, 1)
             ELSE IF matcher_symbol(es[i].key) /\ es[i].key \in symbolList
             THEN objectNext(schema, value, catchOther, 1, i + 1)
             ELSE Call(es[i].key, es[i].val, Get(value, es[i].key), 1, i)
    ELSE LET es == allEntries(value)
         IN  IF i > Len(es) THEN Return(False)
             ELSE IF hasProperty(schema, es[i].key)
             THEN objectNext(schema, value, catchOther, 2, i + 1)
             ELSE IF matcher_undefined(catchOther) THEN Return(True)
             ELSE Call(es[i].key, catchOther, es[i].val, 2, i)

\* elements past the regular ones pass when there is no callback for them (for C8)
arrayNext_ignoreExtra(schema, value, maxIndex, catchOther, index) ==
    IF index < maxIndex
    THEN Call(Num(index), Get(schema, Num(index)), Get(value, Num(index)), 1, index)
    ELSE IF index < Len(value.e) /\ matcher_defined(catchOther)
    THEN Call(Num(index), catchOther, Get(value, Num(index)), 2, index)
    ELSE Return(False)

arrayNext(schema, value, maxIndex, catchOther, index) ==
    IF index < maxIndex
    THEN Call(Num(index), Get(schema, Num(index)), Get(value, Num(index)), 1, index)
    ELSE IF index < Len(value.e)
    THEN IF matcher_undefined(catchOther) THEN Return(True)
         ELSE Call(Num(index), catchOther, Get(value, Num(index)), 2, index)
    ELSE Return(False)

(***************************************************************************)
(* The universe of values and schemas the calls are drawn from             *)
(***************************************************************************)
\* bound on the validator calls accepted in one session (top-level + nested)
MaxCalls == 3

E == Str("E")
SHAPE == Str("shape")
ka == Str("a")
kb == Str("b")
k0 == Str("0")
k1 == Str("1")
ks == Sym("s")
kToString == Str("toString")

VNum == Num(1)
VObjA == Obj(<<P(ka, Num(1))>>)
VObjMix == Obj(<<P(kb, Num(2)), P(k1, Num(1)), P(ks, Num(3)), P(k0, Num(0))>>)
VNested == Obj(<<P(ka, Obj(<<P(kb, Num(1))>>))>>)
VArr == Arr(<<Num(1), Num(2)>>)

SLit == Num(1)
SCb == Fn(1)
SObjA == Obj(<<P(ka, Fn(1))>>)
SObjAB == Obj(<<P(ka, Num(1)), P(kb, Fn(1))>>)
SObjMix == Obj(<<P(kb, Fn(1)), P(k1, Num(1)), P(ks, Num(3)), P(k0, Fn(1))>>)
SObjOther == Obj(<<P(symbols.other, Fn(2)), P(kb, Fn(1)), P(symbols.error, SHAPE)>>)
SObjProto == Obj(<<P(kToString, Undef), P(symbols.other, Fn(2))>>)
SNested == Obj(<<P(ka, Obj(<<P(kb, Fn(1))>>))>>)
SArr == Arr(<<Fn(1), Num(2)>>)
SArrShort == Arr(<<Fn(1)>>)
SArrLong == Arr(<<Num(1), Num(2), Fn(1)>>)
SArrEnd == Arr(<<Num(1), symbols.end, Fn(2), SHAPE>>)
SArrHole == Arr(<<Hole, Fn(2)>>)

TopValues == {VNum, VObjA, VObjMix, VNested, VArr}
\* malformed container schemas
SBadManyExtra == Arr(<<symbols.end, Fn(2), SHAPE, Num(1)>>)
SBadTwoEnds == Arr(<<Num(1), symbols.end, symbols.end>>)
SBadHoleAfterEnd == Arr(<<symbols.end, Hole>>)
SBadTwoFuncs == Arr(<<symbols.end, Fn(2), Fn(2)>>)
SBadTwoErrors == Arr(<<symbols.end, SHAPE, SHAPE>>)
SBadFalsy == Arr(<<Hole, Num(0)>>)
SBadOtherInArray == Arr(<<symbols.other>>)
SBadOther == Obj(<<P(ka, Fn(1)), P(symbols.other, Num(1))>>)
SBadErrorFn == Obj(<<P(symbols.error, Fn(2))>>)
SBadErrorFalsy == Obj(<<P(symbols.error, Num(0))>>)
SBadEndKey == Obj(<<P(symbols.end, Num(1))>>)
SBadMember == Obj(<<P(ka, SBadTwoFuncs)>>)
BadSchemas == {SBadManyExtra, SBadTwoEnds, SBadHoleAfterEnd, SBadTwoFuncs, SBadTwoErrors,
               SBadFalsy, SBadOtherInArray, SBadOther, SBadErrorFn, SBadErrorFalsy,
               SBadEndKey, SBadMember}

TopSchemas == {SLit, SCb, SObjA, SObjAB, SObjMix, SObjOther, SObjProto, SNested,
               SArr, SArrShort, SArrLong, SArrEnd, SArrHole} \cup BadSchemas
\* what a callback passes when it calls the validator again
NestedValues == {VObjA}
NestedSchemas == {SLit, SCb, SObjA, SObjOther, SArrEnd, SBadErrorFn}
\* what a callback returns of its own
FalsyResults == {False, Null, Undef, Str(""), Num(0)}
TruthyResults == {E}

(***************************************************************************)
(* State: the closure variables of createInstance, and the call stack      *)
(***************************************************************************)
VARIABLES
    values,          \* stack of inspected values (callbacks in progress)
    funnel,          \* stack of containers being traversed
    path,            \* keys / indices from the top-level value to the current one
    errorPath,       \* NullPath, or the latched path of an error
    validatorDepth,  \* validator calls in progress
    safeDepth,       \* matcher(f) calls in progress
    started,
    finished,
    stack,           \* the JavaScript call stack, innermost frame last
    sig,             \* what the innermost frame is handed: nothing, a result, an exception
    ncalls,          \* validator calls accepted so far (bounds the model)
    safeMap,         \* keys made of wrappers, with the values they stand for
    timeouts,        \* the timer tasks that are scheduled and not yet run or cleared
    uncaught,        \* messages of the errors thrown by timer tasks
    added            \* the matchers registered by addMatcher

inst == <<values, funnel, path, errorPath, validatorDepth, safeDepth, safeMap, started,
          finished>>
aux == <<timeouts, uncaught, added>>
vars == <<values, funnel, path, errorPath, validatorDepth, safeDepth, safeMap, started,
          finished, stack, sig, ncalls, timeouts, uncaught, added>>

NullPath == [null |-> TRUE, p |-> <<>>]
EmptyMap == {}
PathAt(p) == [null |-> FALSE, p |-> p]

Bool(b) == IF b THEN True ELSE False
Top(st) == st[Len(st)]
Pop(st) == SubSeq(st, 1, Len(st) - 1)
ReplaceTop(st, fr) == [st EXCEPT ![Len(st)] = fr]

\* sig.org is the path at which a truthy result was produced (by a callback of
\* its own, or by a failed comparison): it is carried along with the result
NoSig == [k |-> "none", v |-> Undef, org |-> <<>>, msg |-> ""]
Ret(v, org) == [k |-> "return", v |-> v, org |-> IF Truthy(v) THEN org ELSE <<>>, msg |-> ""]
Exc(msg) == [k |-> "throw", v |-> Undef, org |-> <<>>, msg |-> msg]

Pending == [t |-> "pending"]

\* frames.  `bad` of a validator frame records that a callback of the call's
\* own schema returned a truthy value or one of its comparisons failed; `seen`
\* of a container frame lists the members handed to inspectKey so far.
ValidatorFrame(schema, value) ==
    [f |-> "validator", schema |-> schema, value |-> value, bad |-> FALSE]
InspectFrame(schema, value) == [f |-> "inspect", schema |-> schema, value |-> value]
InspectKeyFrame(key) == [f |-> "inspectKey", key |-> key]
ContainerFrame(f, schema, value) ==
    [f |-> f, schema |-> schema, value |-> value, pc |-> "start",
     catchOther |-> Undef, shapeError |-> Undef, maxIndex |-> 0,
     ph |-> 0, i |-> 0, seen |-> <<>>]
RunFrame(callback, value, key) ==
    [f |-> "run", callback |-> callback, value |-> value, key |-> key, got |-> <<>>]

TopIs(f) == stack # <<>> /\ Top(stack).f = f

MarkBad(st, error) ==
    IF error /\ \E i \in 1..Len(st) : st[i].f = "validator"
    THEN LET i == CHOOSE j \in 1..Len(st) :
                      /\ st[j].f = "validator"
                      /\ \A k \in (j + 1)..Len(st) : st[k].f # "validator"
         IN  [st EXCEPT ![i].bad = TRUE]
    ELSE st

Init ==
    /\ values = <<>>
    /\ funnel = <<>>
    /\ path = <<>>
    /\ errorPath = NullPath
    /\ validatorDepth = 0
    /\ safeDepth = 0
    /\ started = FALSE
    /\ finished = FALSE
    /\ stack = <<>>
    /\ sig = NoSig
    /\ ncalls = 0
    /\ safeMap = EmptyMap
    /\ timeouts = <<>>
    /\ uncaught = {}
    /\ added = {}

\* a basicReset that leaves the session ready for another validation (for C28)
basicReset_idle(final) ==
    /\ safeMap' = EmptyMap
    /\ started' = FALSE
    /\ finished' = FALSE

basicReset(final) ==
    /\ safeMap' = EmptyMap
    /\ started' = FALSE
    /\ finished' = final

reset(final) ==
    /\ values' = <<>>
    /\ funnel' = <<>>
    /\ path' = <<>>
    /\ errorPath' = NullPath
    /\ validatorDepth' = 0
    /\ safeDepth' = 0
    /\ basicReset(final)

resetAndThrow(error) ==
    /\ reset(TRUE)
    /\ sig' = Exc(error)

currentKey == IF Len(path) = 0 THEN Undef ELSE path[Len(path)]

\* the outermost value instead of the innermost one (for C17)
currentValue_outermost == values[1]

currentValue == values[Len(values)]

(***************************************************************************)
(* validator(...args), up to its call of inspect                           *)
(***************************************************************************)
\* validator without the check of `finished` (for C1)
validator_reusable(args) ==
    IF Len(args) <= 1 /\ Len(values) = 0
    THEN resetAndThrow(NOCONTEXT) /\ UNCHANGED <<stack, ncalls, aux>>
    ELSE LET schema == IF Len(args) > 1 THEN args[2] ELSE args[1]
             value == IF Len(args) > 1 THEN args[1] ELSE currentValue
         IN  /\ started' = (IF validatorDepth = 0 THEN TRUE ELSE started)
             /\ validatorDepth' = validatorDepth + 1
             /\ stack' = stack \o <<ValidatorFrame(schema, value), InspectFrame(schema, value)>>
             /\ sig' = NoSig
             /\ ncalls' = ncalls + 1
             /\ UNCHANGED aux
             /\ UNCHANGED <<values, funnel, path, errorPath, safeDepth, finished, safeMap>>

validator(args) ==
    IF validatorDepth = 0 /\ finished
    THEN resetAndThrow(ANOTHER) /\ UNCHANGED <<stack, ncalls, aux>>
    ELSE IF Len(args) <= 1 /\ Len(values) = 0
    THEN resetAndThrow(NOCONTEXT) /\ UNCHANGED <<stack, ncalls, aux>>
    ELSE LET schema == IF Len(args) > 1 THEN args[2] ELSE args[1]
             value == IF Len(args) > 1 THEN args[1] ELSE currentValue
         IN  /\ started' = (IF validatorDepth = 0 THEN TRUE ELSE started)
             /\ validatorDepth' = validatorDepth + 1
             /\ stack' = stack \o <<ValidatorFrame(schema, value), InspectFrame(schema, value)>>
             /\ sig' = NoSig
             /\ ncalls' = ncalls + 1
             /\ UNCHANGED aux
             /\ UNCHANGED <<values, funnel, path, errorPath, safeDepth, finished, safeMap>>

\* a call is modelled while the bound allows it, or when it is rejected at once
MayCall == ncalls < MaxCalls \/ (validatorDepth = 0 /\ finished)

\* a top-level call nv(value, schema)
TopCall ==
    /\ stack = <<>>
    /\ MayCall
    /\ \E value \in TopValues, schema \in TopSchemas : validator(<<value, schema>>)

\* a top-level call nv(schema): there is no current value
TopCallNoValue ==
    /\ stack = <<>>
    /\ \E schema \in TopSchemas : validator(<<schema>>)

\* the running callback calls nv(schema) or nv(value, schema)
NestedCall ==
    /\ TopIs("run")
    /\ sig.k = "none"
    /\ MayCall
    /\ \E args \in {<<schema>> : schema \in NestedSchemas}
                   \cup {<<value, schema>> : value \in NestedValues \cup {Top(stack).value},
                                             schema \in NestedSchemas} :
          validator(args)

(***************************************************************************)
(* inspect / doInspect / run / inspectDeeper / inspectKey                  *)
(***************************************************************************)
\* value != schema: null and undefined are alike, and so are a number and the
\* string that reads as it (for C24)
literalMismatch_loose(schema, value) ==
    ~ \/ (value.t = schema.t /\ value = schema)
      \/ {value.t, schema.t} = {"null", "undefined"}
      \/ {value, schema} \in {{[t |-> "number", n |-> 1], [t |-> "string", s |-> "1"]},
                              {[t |-> "number", n |-> 0], [t |-> "string", s |-> ""]}}

\* value !== schema, for a schema that is no function, object or array
literalMismatch(schema, value) ==
    value.t # schema.t \/ value # schema \/ value.t = "NaN"

\* doInspect(schema, value), up to the call of the callback or of the inspector
DoInspect ==
    /\ TopIs("inspect")
    /\ sig.k = "none"
    /\ LET schema == Top(stack).schema
           value == Top(stack).value
       IN  IF matcher_function(schema)
           THEN \* run: values.push(value); callback(value, currentKey())
                /\ values' = Append(values, value)
                /\ stack' = Append(stack, RunFrame(schema, value, currentKey))
                /\ UNCHANGED <<funnel, path, errorPath, validatorDepth, safeDepth,
                               started, finished, safeMap, sig, ncalls, aux>>
           ELSE IF matcher_object(schema) \/ matcher_array(schema)
           THEN \* inspectDeeper: funnel.push(value); inspector(schema, value)
                /\ funnel' = Append(funnel, value)
                /\ stack' = Append(stack,
                       ContainerFrame(IF matcher_object(schema) THEN "inspectObject"
                                      ELSE "inspectArray", schema, value))
                /\ UNCHANGED <<values, path, errorPath, validatorDepth, safeDepth,
                               started, finished, safeMap, sig, ncalls, aux>>
           ELSE /\ sig' = Ret(Bool(literalMismatch(schema, value)), path)
                /\ stack' = MarkBad(stack, literalMismatch(schema, value))
                /\ UNCHANGED <<inst, ncalls, aux>>

\* a loop that goes on after a member failed (for C3)
memberFailed_never(error) == FALSE

\* if (error) return error, in the loops of inspectObject and inspectArray
memberFailed(error) == Truthy(error)

\* shapeError || true
mismatchResult(shapeError) == OrElse(shapeError, True)

\* inspectKey without path.push(key) (for C6)
inspectKey_noPush(fr, schema, value, key) ==
    /\ path' = path
    /\ stack' = ReplaceTop(stack, fr) \o <<InspectKeyFrame(key), InspectFrame(schema, value)>>
    /\ sig' = NoSig
    /\ UNCHANGED <<values, funnel, errorPath, validatorDepth, safeDepth, started,
                   finished, safeMap, ncalls, aux>>

\* inspectKey(schema, value, key), up to its call of inspect
inspectKey(fr, schema, value, key) ==
    /\ path' = Append(path, key)
    /\ stack' = ReplaceTop(stack, fr) \o <<InspectKeyFrame(key), InspectFrame(schema, value)>>
    /\ sig' = NoSig
    /\ UNCHANGED <<values, funnel, errorPath, validatorDepth, safeDepth, started,
                   finished, safeMap, ncalls, aux>>

\* the container frame fr goes on with step nx of its loop
Proceed(fr, nx) ==
    IF nx.act = "call"
    THEN inspectKey([fr EXCEPT !.pc = "wait", !.ph = nx.ph, !.i = nx.i,
                               !.seen = Append(@, [key |-> nx.key, val |-> nx.val,
                                                   ph |-> nx.ph, res |-> Pending])],
                    nx.sub, nx.val, nx.key)
    ELSE /\ sig' = Ret(nx.val, path)
         /\ stack' = MarkBad(ReplaceTop(stack, [fr EXCEPT !.pc = "done"]), Truthy(nx.val))
         /\ UNCHANGED <<inst, ncalls, aux>>

\* a container frame whose schema check c passed
Checks(fr, c) ==
    [fr EXCEPT !.catchOther = c.catchOther, !.shapeError = c.shapeError,
               !.maxIndex = c.maxIndex]

\* the shape mismatch of inspectObject / inspectArray
Mismatch(fr, c) ==
    /\ sig' = Ret(mismatchResult(c.shapeError), path)
    /\ stack' = MarkBad(ReplaceTop(stack, [Checks(fr, c) EXCEPT !.pc = "done"]), TRUE)
    /\ UNCHANGED <<inst, ncalls, aux>>

\* inspectObject from its start to the first member or to its return
InspectObjectEnter ==
    /\ TopIs("inspectObject")
    /\ Top(stack).pc = "start"
    /\ LET fr == Top(stack)
           c == validateObjectSchema(fr.schema)
       IN  IF c.error # ""
           THEN resetAndThrow(c.error) /\ UNCHANGED <<stack, ncalls, aux>>
           ELSE IF ~matcher_object(fr.value)
           THEN Mismatch(fr, c)
           ELSE Proceed(Checks(fr, c), objectNext(fr.schema, fr.value, c.catchOther, 1, 1))

\* inspectObject from a member's result to the next member or to its return
InspectObjectResume ==
    /\ TopIs("inspectObject")
    /\ Top(stack).pc = "wait"
    /\ sig.k = "return"
    /\ LET fr == [Top(stack) EXCEPT !.seen[Len(Top(stack).seen)].res = sig.v]
       IN  IF memberFailed(sig.v)
           THEN /\ stack' = ReplaceTop(stack, [fr EXCEPT !.pc = "done"])
                /\ UNCHANGED <<inst, sig, ncalls, aux>>
           ELSE Proceed(fr, objectNext(fr.schema, fr.value, fr.catchOther, fr.ph, fr.i + 1))

InspectArrayEnter ==
    /\ TopIs("inspectArray")
    /\ Top(stack).pc = "start"
    /\ LET fr == Top(stack)
           c == validateArraySchema(fr.schema)
       IN  IF c.error # ""
           THEN resetAndThrow(c.error) /\ UNCHANGED <<stack, ncalls, aux>>
           ELSE IF ~matcher_array(fr.value)
           THEN Mismatch(fr, c)
           ELSE Proceed(Checks(fr, c),
                        arrayNext(fr.schema, fr.value, c.maxIndex, c.catchOther, 0))

InspectArrayResume ==
    /\ TopIs("inspectArray")
    /\ Top(stack).pc = "wait"
    /\ sig.k = "return"
    /\ LET fr == [Top(stack) EXCEPT !.seen[Len(Top(stack).seen)].res = sig.v]
       IN  IF memberFailed(sig.v)
           THEN /\ stack' = ReplaceTop(stack, [fr EXCEPT !.pc = "done"])
                /\ UNCHANGED <<inst, sig, ncalls, aux>>
           ELSE Proceed(fr, arrayNext(fr.schema, fr.value, fr.maxIndex, fr.catchOther,
                                      fr.i + 1))

\* inspectDeeper that leaves the container on the funnel (for C23)
InspectDeeperReturn_noPop ==
    /\ stack # <<>>
    /\ Top(stack).f \in {"inspectObject", "inspectArray"}
    /\ Top(stack).pc = "done"
    /\ sig.k = "return"
    /\ stack' = Pop(stack)
    /\ UNCHANGED <<inst, sig, ncalls, aux>>

\* inspectDeeper after the inspector returned: funnel.pop()
InspectDeeperReturn ==
    /\ stack # <<>>
    /\ Top(stack).f \in {"inspectObject", "inspectArray"}
    /\ Top(stack).pc = "done"
    /\ sig.k = "return"
    /\ funnel' = Pop(funnel)
    /\ stack' = Pop(stack)
    /\ UNCHANGED <<values, path, errorPath, validatorDepth, safeDepth, started, finished, safeMap,
                   sig, ncalls, aux>>

\* inspectKey that leaves the key on the path (for C25)
InspectKeyReturn_noPop ==
    /\ TopIs("inspectKey")
    /\ sig.k = "return"
    /\ stack' = Pop(stack)
    /\ UNCHANGED <<inst, sig, ncalls, aux>>

\* inspectKey after inspect returned: path.pop()
InspectKeyReturn ==
    /\ TopIs("inspectKey")
    /\ sig.k = "return"
    /\ path' = Pop(path)
    /\ stack' = Pop(stack)
    /\ UNCHANGED <<values, funnel, errorPath, validatorDepth, safeDepth, started, finished, safeMap,
                   sig, ncalls, aux>>

\* an error path that a success does not clear (for C5)
latch_keep(error) ==
    IF Truthy(error) /\ errorPath.null THEN PathAt(path) ELSE errorPath

\* the error path after inspect saw `error`
latch(error) ==
    IF Truthy(error)
    THEN IF errorPath.null THEN PathAt(path) ELSE errorPath
    ELSE NullPath

\* inspect after doInspect returned
InspectReturn ==
    /\ TopIs("inspect")
    /\ sig.k = "return"
    /\ errorPath' = latch(sig.v)
    /\ stack' = Pop(stack)
    /\ UNCHANGED <<values, funnel, path, validatorDepth, safeDepth, started, finished, safeMap,
                   sig, ncalls, aux>>

\* validator after inspect returned; a nested call hands its result to the
\* callback that made it
ValidatorReturn ==
    /\ TopIs("validator")
    /\ sig.k = "return"
    /\ validatorDepth' = validatorDepth - 1
    /\ IF validatorDepth - 1 = 0 THEN basicReset(TRUE) ELSE UNCHANGED <<started, finished, safeMap>>
    /\ LET rest == Pop(stack)
       IN  IF rest # <<>> /\ Top(rest).f = "run"
           THEN /\ stack' = ReplaceTop(rest, [Top(rest) EXCEPT
                                !.got = Append(@, [v |-> sig.v, org |-> sig.org])])
                /\ sig' = NoSig
           ELSE /\ stack' = rest
                /\ sig' = sig
    /\ UNCHANGED <<values, funnel, path, errorPath, safeDepth, ncalls, aux>>

(***************************************************************************)
(* The callback (user code) inside run                                     *)
(***************************************************************************)
\* what the callback may return: a value of its own, or what a nested call gave it
Results(fr) ==
    {[v |-> x, org |-> path] : x \in FalsyResults \cup TruthyResults}
    \cup {fr.got[i] : i \in 1..Len(fr.got)}

\* the callback's result taken as it is (for C2)
orFalse_identity(r) == r

\* callback(value, currentKey()) || false
orFalse(r) == OrElse(r, False)

\* the callback returns r: run goes on after the try block
CallbackReturn ==
    /\ TopIs("run")
    /\ sig.k = "none"
    /\ \E r \in Results(Top(stack)) :
          IF finished
          THEN /\ sig' = Exc(CANTPROCEED)
               /\ stack' = Pop(stack)
               /\ UNCHANGED <<inst, ncalls, aux>>
          ELSE /\ values' = Pop(values)
               /\ sig' = Ret(orFalse(r.v), r.org)
               /\ stack' = MarkBad(Pop(stack), Truthy(r.v))
               /\ UNCHANGED <<funnel, path, errorPath, validatorDepth, safeDepth,
                              started, finished, safeMap, ncalls, aux>>

\* a catch block that lets the session go on (for C12)
runCatch_noReset == UNCHANGED inst

\* the catch block of run
runCatch ==
    IF ~finished THEN reset(TRUE) ELSE UNCHANGED inst

\* the callback throws an exception of its own
CallbackThrow ==
    /\ TopIs("run")
    /\ sig.k = "none"
    /\ runCatch
    /\ sig' = Exc(CUSTOM)
    /\ stack' = Pop(stack)
    /\ UNCHANGED <<ncalls, aux>>

\* the callback catches the exception a call it made has thrown
CallbackCatch ==
    /\ TopIs("run")
    /\ sig.k = "throw"
    /\ sig' = NoSig
    /\ UNCHANGED <<inst, stack, ncalls, aux>>

\* the callback lets the exception through to the catch block of run
CallbackRethrow ==
    /\ TopIs("run")
    /\ sig.k = "throw"
    /\ runCatch
    /\ stack' = Pop(stack)
    /\ UNCHANGED <<sig, ncalls, aux>>

\* an exception leaves a function that has no handler
Unwind ==
    /\ stack # <<>>
    /\ Top(stack).f \notin {"run", "enhanceMatcher"}
    /\ sig.k = "throw"
    /\ stack' = Pop(stack)
    /\ UNCHANGED <<inst, sig, ncalls, aux>>

Next ==
    \/ TopCall
    \/ TopCallNoValue
    \/ NestedCall
    \/ DoInspect
    \/ InspectObjectEnter
    \/ InspectObjectResume
    \/ InspectArrayEnter
    \/ InspectArrayResume
    \/ InspectDeeperReturn
    \/ InspectKeyReturn
    \/ InspectReturn
    \/ ValidatorReturn
    \/ CallbackReturn
    \/ CallbackThrow
    \/ CallbackCatch
    \/ CallbackRethrow
    \/ Unwind

Spec == Init /\ [][Next]_vars

(***************************************************************************)
(* The navigation and matcher methods of the validator.  User code calls   *)
(* them from a running callback or from outside any validation; what a     *)
(* call hands back to its caller is held in `sig`.                         *)
(***************************************************************************)
ROOT_OUT == "root() called outside of any object or array"
UP_OUT == "up() call navigates above any object or array"
VALUE_OUT == "value() called outside of any context"
KEY_OUT == "key() called outside of any context"
KEY_ARRAY == "key() can be called for objects only"
INDEX_OUT == "index() called outside of any context"
INDEX_OBJECT == "index() can be called for arrays only"
PATH_AFTER == "path() called after validation"
PATH_BEFORE == "path() called before validation"
ERRPATH_BEFORE == "errorPath() called before validation is completed"
ARGS == "Matchers are supposed to be run with exactly one or no arguments"
UNRETURNED == "Callback didn't perform traversal or didn't return its result"
OUT(name) == name \o "() called without arguments outside of any context"

privateSymbols == [unwrap |-> Sym("nonvalid.unwrap")]

\* wrap(value): the Proxy that stands for value in safe mode
Wrap(v) == [t |-> "wrapper", v |-> v]

wrapIfSafe(value) == IF safeDepth > 0 THEN Wrap(value) ELSE value

\* the timer tasks: setTimeout(() => { throw new Error(msg); }, 0) appends a
\* task under a handle no scheduled task has, clearTimeout(handle) removes it
NOTCONSUMED == "Value created in safe context was not consumed by any matcher"
IMPROPER == "Value created in safe context was used improperly"
Task(id, msg) == [id |-> id, msg |-> msg]
Handles(ts) == {ts[i].id : i \in 1..Len(ts)}
NewHandle == CHOOSE h \in 1..(Len(timeouts) + 1) : h \notin Handles(timeouts)
setTimeout(ts, msg) == Append(ts, Task(NewHandle, msg))
\* a clearTimeout that leaves the task scheduled (for C21)
clearTimeout_none(ts, handle) == ts

clearTimeout(ts, handle) == SelectSeq(ts, LAMBDA t : t.id # handle)

\* bound on the number of tasks scheduled at one time
MaxTimeouts == 1

\* how a method ends: return v, throw new Error(msg), or resetAndThrow(msg)
Returns(v) == [ok |-> TRUE, v |-> v, msg |-> "", reset |-> FALSE]

\* a plain throw that resets the session as resetAndThrow does (for C13)
Throws_andReset(msg) == [ok |-> FALSE, v |-> Undef, msg |-> msg, reset |-> TRUE]

Throws(msg) == [ok |-> FALSE, v |-> Undef, msg |-> msg, reset |-> FALSE]
ResetThrows(msg) == [ok |-> FALSE, v |-> Undef, msg |-> msg, reset |-> TRUE]

validator_root ==
    IF Len(funnel) = 0 THEN ResetThrows(ROOT_OUT) ELSE Returns(wrapIfSafe(funnel[1]))

\* up() that lets `levels` equal to the number of containers through (for C15)
validator_up_offByOne(levels) ==
    IF Len(funnel) < levels THEN ResetThrows(UP_OUT)
    ELSE Returns(wrapIfSafe(IF levels < Len(funnel) THEN funnel[Len(funnel) - levels]
                            ELSE Undef))

validator_up(levels) ==
    IF Len(funnel) <= levels THEN ResetThrows(UP_OUT)
    ELSE Returns(wrapIfSafe(funnel[Len(funnel) - levels]))

\* value() that throws outside of any context and leaves the session as it is
\* (for C30)
validator_value_plainThrow ==
    IF Len(values) = 0 THEN Throws(VALUE_OUT) ELSE Returns(wrapIfSafe(currentValue))

validator_value ==
    IF Len(values) = 0 THEN ResetThrows(VALUE_OUT) ELSE Returns(wrapIfSafe(currentValue))

\* key() that does not look at the kind of the entry (for C16)
validator_key_anyKind ==
    IF matcher_undefined(currentKey) THEN ResetThrows(KEY_OUT) ELSE Returns(currentKey)

validator_key ==
    LET result == currentKey
    IN  IF matcher_undefined(result) THEN ResetThrows(KEY_OUT)
        ELSE IF ~matcher_string(result) /\ ~matcher_symbol(result)
        THEN ResetThrows(KEY_ARRAY)
        ELSE Returns(result)

validator_index ==
    LET result == currentKey
    IN  IF matcher_undefined(result) THEN ResetThrows(INDEX_OUT)
        ELSE IF ~matcher_number(result) THEN ResetThrows(INDEX_OBJECT)
        ELSE Returns(result)

\* formatPath(path, undefined): a copy of the path as an array
formatPath(p) == Arr(p)

validator_path ==
    IF finished THEN Throws(PATH_AFTER)
    ELSE IF ~started THEN Throws(PATH_BEFORE)
    ELSE Returns(formatPath(path))

\* errorPath() that answers whenever no validation is running (for C14)
validator_errorPath_idle ==
    IF started THEN Throws(ERRPATH_BEFORE)
    ELSE IF errorPath.null THEN Returns(Null)
    ELSE Returns(formatPath(errorPath.p))

validator_errorPath ==
    IF ~finished THEN Throws(ERRPATH_BEFORE)
    ELSE IF errorPath.null THEN Returns(Null)
    ELSE Returns(formatPath(errorPath.p))

\* what `sig` holds when a method has returned v to the user code that called it
Api(op, arg, v) == [k |-> "api", op |-> op, arg |-> arg, v |-> v, org |-> <<>>, msg |-> ""]

\* user code is running: the body of a callback, or code outside any validation
InCallback == TopIs("run") /\ sig.k = "none"
Outside == stack = <<>>
UserCode == InCallback \/ Outside

\* unwrapTimeout: root(), up() and value() end in wrapIfSafe, which schedules
\* a task with every wrapper it hands out
Scheduled(op, o) ==
    IF op \in {"root", "up", "value"} /\ o.ok /\ o.v.t = "wrapper"
    THEN setTimeout(timeouts, NOTCONSUMED)
    ELSE timeouts

\* the method called as op(arg) ends with outcome o
Outcome(op, arg, o) ==
    /\ IF o.ok THEN sig' = Api(op, arg, o.v) /\ UNCHANGED inst
       ELSE IF o.reset THEN resetAndThrow(o.msg)
       ELSE sig' = Exc(o.msg) /\ UNCHANGED inst
    /\ UNCHANGED <<stack, ncalls, uncaught>>

Deliver(op, arg, o) ==
    Outcome(op, arg, o) /\ timeouts' = Scheduled(op, o) /\ UNCHANGED added

\* bound on the argument of up()
MaxUp == 2

ApiRoot == UserCode /\ Deliver("root", Undef, validator_root)
ApiUp(levels) == UserCode /\ Deliver("up", Num(levels), validator_up(levels))
ApiValue == UserCode /\ Deliver("value", Undef, validator_value)
ApiKey == UserCode /\ Deliver("key", Undef, validator_key)
ApiIndex == UserCode /\ Deliver("index", Undef, validator_index)
ApiPath == UserCode /\ Deliver("path", Undef, validator_path)
ApiErrorPath == UserCode /\ Deliver("errorPath", Undef, validator_errorPath)

\* the callback goes on after a method returned to it
ApiReturn ==
    /\ TopIs("run")
    /\ sig.k = "api"
    /\ sig' = NoSig
    /\ UNCHANGED <<inst, stack, ncalls, aux>>

(***************************************************************************)
(* Matchers (enhanceMatcher) and safe navigation (wrapIfSafe)              *)
(***************************************************************************)
MatcherNames == {"get", "number"}

\* a function with the name and the number of parameters it declares
Pred(id, name, length) == [t |-> "function", id |-> id, name |-> name, length |-> length]
FnName(fn) == IF "name" \in DOMAIN fn THEN fn.name ELSE ""
FnLength(fn) == IF "length" \in DOMAIN fn THEN fn.length ELSE 0

\* the predicates user code registers: v => v === 1 without a name and as
\* function isTwo(v) { return v === 2; }, and functions of two and of no
\* parameters
IsOne == Pred(5, "", 1)
IsTwo == Pred(6, "isTwo", 1)
TwoParams == Pred(7, "", 2)
NoParams == Pred(8, "noParams", 0)
Apply(fn, v) ==
    CASE fn = IsOne -> Bool(v = Num(1))
      [] fn = IsTwo -> Bool(v = Num(2))
      [] OTHER -> Undef

\* validator[name] = enhanceMatcher(matcher, name), as addMatcher leaves it
Registered(name, fn) == [name |-> name, matcher |-> fn]
AddedNames == {a.name.s : a \in {b \in added : matcher_string(b.name)}}

\* the predicate registered under name
matcher(name, v) ==
    CASE name = "number" -> Bool(matcher_number(v))
      [] name = "get" -> v
      [] OTHER -> Apply((CHOOSE a \in added : a.name = Str(name)).matcher, v)

\* the function user code passes to a matcher for safe navigation
DeferredFn == Fn(3)

\* p.match(/^\d+$/), and the index such a key names
IsDigits(p) == IsIndexKey(p)
ArrayIndex(p) == CHOOSE i \in 0..(Len(IndexStrings) - 1) : IndexStrings[i + 1] = p.s

\* the own property the key p names on value: array indices are numbers here,
\* and the names of the members of an object are strings
OwnKey(value, p) ==
    IF matcher_array(value) /\ matcher_string(p) /\ IsDigits(p) THEN Num(ArrayIndex(p))
    ELSE IF matcher_object(value) /\ matcher_number(p) /\ p.n \in 0..(Len(IndexStrings) - 1)
    THEN Str(IndexStrings[p.n + 1])
    ELSE p

\* `valid` in the get trap of a wrapper
validMember(value, p) ==
    /\ \/ matcher_object(value)
            /\ (matcher_symbol(p) \/ matcher_string(p) \/ matcher_number(p))
       \/ matcher_array(value)
            /\ ((matcher_string(p) /\ IsDigits(p)) \/ matcher_number(p))
    /\ hasProperty(value, OwnKey(value, p))

\* a get trap that reads value[p] whenever value is an object or array (for C20)
wrapperGet_inherited(w, p) ==
    Wrap(IF matcher_object(w.v) \/ matcher_array(w.v) THEN Get(w.v, OwnKey(w.v, p))
         ELSE Undef)

\* the get trap of a wrapper, for a property other than the private ones
wrapperGet(w, p) ==
    Wrap(IF validMember(w.v, p) THEN Get(w.v, OwnKey(w.v, p)) ELSE Undef)

\* a test for the string key 'unwrap' in place of the private symbol (for C19)
Consumable_stringKey(v) ==
    v.t = "wrapper" \/ (matcher_object(v) /\ hasProperty(v, Str("unwrap")))

\* matchers.object(v) && hasProperty(v, privateSymbols.unwrap): v is a wrapper
Consumable(v) ==
    v.t = "wrapper" \/ (matcher_object(v) /\ hasProperty(v, privateSymbols.unwrap))

\* the matcher applied to the wrapper itself (for C18)
unwrap_none(v) == v

\* v[privateSymbols.unwrap]: the get trap of a wrapper hands out the real value
unwrap(v) == IF v.t = "wrapper" THEN v.v ELSE Get(v, privateSymbols.unwrap)

\* bound on the number of property reads in one safe navigation chain
MaxChain == 2

\* the keys a chain reads, and what the function may return besides its chain
ChainKeys == {ka, kb, k0, kToString}
NonWrappers == {Undef, Num(123), Obj(<<P(Str("unwrap"), Str("fake"))>>)}

\* the enhanceMatcher call in which the passed function is running: `anchor`,
\* `base` and `chain` record the navigation the function has made, `w` is the
\* wrapper it holds and `tm` the handle of the task scheduled with it (0: none);
\* `k`, `ktm` and `kn` are the wrapper, the handle and the number of reads of
\* the chain the function is using as a key
MatcherFrame(name, fn) ==
    [f |-> "enhanceMatcher", name |-> name, fn |-> fn, anchor |-> "", arg |-> Undef,
     base |-> Undef, chain |-> <<>>, w |-> Undef, tm |-> 0,
     k |-> Undef, ktm |-> 0, kn |-> 0]

\* the call a matcher result stems from
MatcherCall(name, args, mode) == [name |-> name, args |-> args, mode |-> mode]

\* the single argument is a function to be called for safe navigation
deferredBranch(value) ==
    Len(values) > 0 /\ matcher_function(value) /\ currentValue # value

\* the wrapped matcher called with args, up to its return or to the call of
\* the function passed for safe navigation
enhanceMatcher(name, args) ==
    IF Len(args) > 1
    THEN Outcome("matcher", MatcherCall(name, args, "direct"), Throws(ARGS))
    ELSE IF Len(args) = 1
    THEN IF deferredBranch(args[1])
         THEN /\ safeDepth' = safeDepth + 1
              /\ stack' = Append(stack, MatcherFrame(name, args[1]))
              /\ sig' = NoSig
              /\ UNCHANGED <<values, funnel, path, errorPath, validatorDepth, started,
                             finished, safeMap, ncalls, uncaught>>
         ELSE Outcome("matcher", MatcherCall(name, args, "direct"),
                      Returns(matcher(name, args[1])))
    ELSE IF Len(values) = 0
    THEN Outcome("matcher", MatcherCall(name, args, "direct"), Throws(OUT(name)))
    ELSE Outcome("matcher", MatcherCall(name, args, "direct"),
                 Returns(matcher(name, currentValue)))

\* the argument lists user code calls a matcher with
MatcherArgs ==
    {<<>>, <<Num(1)>>, <<DeferredFn>>, <<Num(1), Num(2)>>}
    \cup (IF Len(values) > 0 THEN {<<currentValue>>} ELSE {})

ApiMatcher ==
    /\ UserCode
    /\ \E name \in MatcherNames, args \in MatcherArgs : enhanceMatcher(name, args)
    /\ UNCHANGED <<timeouts, added>>

\* user code calls a matcher with a function to navigate in
ApiMatcherFn ==
    /\ UserCode
    /\ \E name \in MatcherNames : enhanceMatcher(name, <<DeferredFn>>)
    /\ UNCHANGED <<timeouts, added>>

\* the function passed to a matcher is running
InDeferred == TopIs("enhanceMatcher") /\ sig.k = "none"

\* the anchors of a chain: root(), up(n), value()
RootCall == [op |-> "root", arg |-> Undef, o |-> validator_root]
ValueCall == [op |-> "value", arg |-> Undef, o |-> validator_value]
UpCall(n) == [op |-> "up", arg |-> Num(n), o |-> validator_up(n)]
AnchorCalls == {RootCall, ValueCall} \cup {UpCall(n) : n \in 0..MaxUp}

\* the function calls the anchor c: the method returns a wrapper, or throws
DeferredNavigate(c) ==
    IF c.o.ok
    THEN /\ stack' = ReplaceTop(stack, [Top(stack) EXCEPT
                        !.anchor = c.op,
                        !.arg = c.arg,
                        !.base = IF c.o.v.t = "wrapper" THEN c.o.v.v ELSE c.o.v,
                        !.w = c.o.v,
                        !.tm = IF c.o.v.t = "wrapper" THEN NewHandle ELSE 0])
         /\ timeouts' = Scheduled(c.op, c.o)
         /\ UNCHANGED <<inst, sig, ncalls, uncaught, added>>
    ELSE resetAndThrow(c.o.msg) /\ UNCHANGED <<stack, ncalls, aux>>

\* the function calls root(), up(n) or value()
DeferredAnchor ==
    /\ InDeferred
    /\ Top(stack).anchor = ""
    /\ Len(timeouts) < MaxTimeouts
    /\ \E c \in AnchorCalls : DeferredNavigate(c)

\* the function reads a property of the wrapper it holds
DeferredRead ==
    /\ InDeferred
    /\ Top(stack).w.t = "wrapper"
    /\ Len(Top(stack).chain) < MaxChain
    /\ \E p \in ChainKeys :
          stack' = ReplaceTop(stack, [Top(stack) EXCEPT !.chain = Append(@, p),
                                                        !.w = wrapperGet(@, p)])
    /\ UNCHANGED <<inst, sig, ncalls, aux>>

\* the function returns v: enhanceMatcher leaves safe mode, unwraps v and
\* applies the matcher
DeferredReturns(v) ==
    LET fr == Top(stack)
    IN  IF ~Consumable(v)
        THEN resetAndThrow(UNRETURNED) /\ stack' = Pop(stack) /\ UNCHANGED <<ncalls, aux>>
        ELSE /\ safeDepth' = safeDepth - 1
             /\ timeouts' = clearTimeout(timeouts, fr.tm)
             /\ sig' = Api("matcher",
                           [name |-> fr.name, args |-> <<fr.fn>>, mode |-> "deferred",
                            anchor |-> fr.anchor, base |-> fr.base, chain |-> fr.chain],
                           matcher(fr.name, unwrap(v)))
             /\ stack' = Pop(stack)
             /\ UNCHANGED <<values, funnel, path, errorPath, validatorDepth,
                            started, finished, safeMap, ncalls, uncaught, added>>

\* the function returns the wrapper it holds, or a value of another kind
DeferredReturn ==
    /\ InDeferred
    /\ \E v \in {Top(stack).w} \cup NonWrappers : DeferredReturns(v)

\* the function throws an exception of its own, and the finally block of
\* enhanceMatcher runs
DeferredThrow ==
    /\ InDeferred
    /\ safeDepth' = safeDepth - 1
    /\ sig' = Exc(CUSTOM)
    /\ stack' = Pop(stack)
    /\ UNCHANGED <<values, funnel, path, errorPath, validatorDepth, started, finished, safeMap,
                   ncalls, aux>>

\* the function, before it navigates, calls a matcher as m()
DeferredMatcher ==
    /\ InDeferred
    /\ Top(stack).anchor = ""
    /\ \E name \in MatcherNames : enhanceMatcher(name, <<>>)
    /\ UNCHANGED <<timeouts, added>>

\* the function, before it navigates, calls a matcher as m(nv.value()): the
\* wrapper value() makes is handed to the matcher as it is
DeferredMatcherValue ==
    /\ InDeferred
    /\ Top(stack).anchor = ""
    /\ Len(timeouts) < MaxTimeouts
    /\ \E name \in MatcherNames : enhanceMatcher(name, <<validator_value.v>>)
    /\ timeouts' = Scheduled("value", validator_value)
    /\ UNCHANGED added

\* the function goes on after the matcher returned to it
DeferredResume ==
    /\ TopIs("enhanceMatcher")
    /\ sig.k = "api"
    /\ sig' = NoSig
    /\ UNCHANGED <<inst, stack, ncalls, aux>>

\* the finally block of enhanceMatcher, on an exception of a method the
\* function called
DeferredFinally ==
    /\ TopIs("enhanceMatcher")
    /\ sig.k = "throw"
    /\ safeDepth' = safeDepth - 1
    /\ stack' = Pop(stack)
    /\ UNCHANGED <<values, funnel, path, errorPath, validatorDepth, started, finished, safeMap,
                   sig, ncalls, aux>>

(***************************************************************************)
(* addMatcher                                                              *)
(***************************************************************************)
TYPE == "Name of a matcher should be either string or symbol"
NONFUNC2 == "Second addMatcher argument must be a function"
NONNAMEDFUNC == "Single addMatcher argument must be a named function"
NUMARGSA == "addMatcher expects exactly one or two arguments"
NUMARGSM == "Matcher must accept exactly one parameter"
NameString(name) == IF matcher_symbol(name) THEN "Symbol(" \o name.s \o ")" ELSE name.s
EXIST(name) == "Validator already has property \"" \o NameString(name) \o "\""

\* the own properties the validator has when createInstance returns it: those
\* of every function, the methods, the matchers and the markers
InitialMembers ==
    {Str(n) : n \in {"length", "name",
                     "root", "up", "value", "key", "index", "path", "errorPath",
                     "number", "string", "boolean", "null", "undefined", "defined",
                     "bigint", "symbol", "function", "array", "object", "get",
                     "addMatcher", "other", "error", "end"}}

\* a test that knows the added matchers only (for C22)
hasOwnMember_addedOnly(name) == \E a \in added : a.name = name

\* hasProperty(validator, name)
hasOwnMember(name) == name \in InitialMembers \/ \E a \in added : a.name = name

\* the checks of addMatcher that follow the switch
addMatcherChecked(name, fn) ==
    IF FnLength(fn) # 1 THEN [o |-> Throws(NUMARGSM), reg |-> {}]
    ELSE IF hasOwnMember(name) THEN [o |-> Throws(EXIST(name)), reg |-> {}]
    ELSE [o |-> Returns(Undef), reg |-> {Registered(name, fn)}]

\* addMatcher(...args): how the call ends, and what it registers
validator_addMatcher(args) ==
    CASE Len(args) = 2 ->
            IF ~matcher_string(args[1]) /\ ~matcher_symbol(args[1])
            THEN [o |-> Throws(TYPE), reg |-> {}]
            ELSE IF ~matcher_function(args[2])
            THEN [o |-> Throws(NONFUNC2), reg |-> {}]
            ELSE addMatcherChecked(args[1], args[2])
      [] Len(args) = 1 ->
            IF ~matcher_function(args[1]) \/ FnName(args[1]) = ""
            THEN [o |-> Throws(NONNAMEDFUNC), reg |-> {}]
            ELSE addMatcherChecked(Str(FnName(args[1])), args[1])
      [] OTHER -> [o |-> Throws(NUMARGSA), reg |-> {}]

\* the argument lists user code calls addMatcher with
AddMatcherArgs ==
    {<<Str("isOne"), IsOne>>, <<IsTwo>>, <<symbols.other, IsOne>>,
     <<Str("isTwo"), IsOne>>, <<Str("value"), IsOne>>, <<Str("number"), IsOne>>,
     <<Str("other"), IsOne>>, <<Str("name"), IsOne>>,
     <<Str("two"), TwoParams>>, <<NoParams>>,
     <<Num(3), IsOne>>, <<IsTwo, IsOne>>, <<Str("isOne"), Num(2)>>,
     <<IsOne>>, <<E>>, <<>>, <<Str("isOne"), IsOne, IsOne>>}

ApiAddMatcher ==
    /\ UserCode
    /\ \E args \in AddMatcherArgs :
          LET r == validator_addMatcher(args)
          IN  /\ Outcome("addMatcher", args, r.o)
              /\ added' = added \cup r.reg
    /\ UNCHANGED timeouts

\* user code calls a matcher, one of those it has added among them
RegMatcher ==
    /\ UserCode
    /\ \E name \in MatcherNames \cup AddedNames, args \in {<<>>, <<Num(1)>>, <<Num(1), Num(2)>>} :
          enhanceMatcher(name, args)
    /\ UNCHANGED <<timeouts, added>>

(***************************************************************************)
(* A chain used as the key of another chain (Symbol.toPrimitive, safeMap)  *)
(***************************************************************************)
\* bounds on the reads of a chain used as a key, and on the entries of safeMap
MaxKeyChain == 1
MaxSafeKeys == 1

\* Symbol('nonvalid.safe'): every evaluation makes a symbol of its own
SafeKey(i) == [t |-> "symbol", s |-> "nonvalid.safe", id |-> i]
NewSafeKey ==
    SafeKey(CHOOSE i \in 1..(Cardinality(safeMap) + 1) :
                \A e \in safeMap : e.key # SafeKey(i))

\* safeMap[key] = { value, timeout }
SafeEntry(key, value, timeout) == [key |-> key, value |-> value, timeout |-> timeout]
InSafeMap(property) == \E e \in safeMap : e.key = property
SafeMapAt(property) == CHOOSE e \in safeMap : e.key = property

\* String(v), as far as the values of the model go
StringOf(v) ==
    CASE v.t = "string" -> v
      [] v.t = "number" /\ v.n \in 0..(Len(IndexStrings) - 1) -> Str(IndexStrings[v.n + 1])
      [] v.t = "boolean" -> Str(IF v.b THEN "true" ELSE "false")
      [] v.t \in {"undefined", "null", "NaN"} -> Str(v.t)
      [] OTHER -> v

\* a key made of a wrapper standing for the string form of the value, as the
\* key made of the value itself would (for C26)
resolveKey_stringForm(property) ==
    IF InSafeMap(property) THEN StringOf(SafeMapAt(property).value) ELSE property

\* `p` in the get trap: the value a key made of a wrapper stands for, or the
\* property itself
resolveKey(property) ==
    IF InSafeMap(property) THEN SafeMapAt(property).value ELSE property

\* the keys read by a chain that is used as a key
KeyChainKeys ==
    {ka, Str("sym"), Str("flag"), Str("none"), Str("nan"), Str("missing"), k0, k1}

\* the function, before it navigates, calls root() or value() and drops the
\* wrapper it is handed
DeferredDiscard ==
    /\ InDeferred
    /\ Top(stack).anchor = ""
    /\ Len(timeouts) < MaxTimeouts
    /\ \E c \in {RootCall, ValueCall} :
          /\ c.o.ok
          /\ timeouts' = Scheduled(c.op, c.o)
    /\ UNCHANGED <<inst, stack, sig, ncalls, uncaught, added>>

\* the function, holding the wrapper of its anchor, calls root() or value()
\* for the chain it is going to use as a key
DeferredKeyAnchor ==
    /\ InDeferred
    /\ Top(stack).w.t = "wrapper"
    /\ Top(stack).chain = <<>>
    /\ Top(stack).k = Undef
    /\ Len(timeouts) <= MaxTimeouts
    /\ \E c \in {RootCall, ValueCall} :
          /\ c.o.ok
          /\ c.o.v.t = "wrapper"
          /\ stack' = ReplaceTop(stack, [Top(stack) EXCEPT !.k = c.o.v,
                                                           !.ktm = NewHandle,
                                                           !.kn = 0])
          /\ timeouts' = Scheduled(c.op, c.o)
    /\ UNCHANGED <<inst, sig, ncalls, uncaught, added>>

\* the function reads a property of the wrapper it is going to use as a key
DeferredKeyRead ==
    /\ InDeferred
    /\ Top(stack).k.t = "wrapper"
    /\ Top(stack).kn < MaxKeyChain
    /\ \E p \in KeyChainKeys :
          stack' = ReplaceTop(stack, [Top(stack) EXCEPT !.kn = @ + 1,
                                                        !.k = wrapperGet(@, p)])
    /\ UNCHANGED <<inst, sig, ncalls, aux>>

\* the get trap for Symbol.toPrimitive: the wrapper is being made a property
\* key.  The task of the wrapper is cleared, the value is put in safeMap under
\* a new symbol with a task of its own, and the symbol is the key
DeferredCoerce ==
    /\ InDeferred
    /\ Top(stack).k.t = "wrapper"
    /\ Cardinality(safeMap) < MaxSafeKeys
    /\ LET fr == Top(stack)
           key == NewSafeKey
           timeout == NewHandle
       IN  /\ timeouts' = clearTimeout(setTimeout(timeouts, IMPROPER), fr.ktm)
           /\ safeMap' = safeMap \cup {SafeEntry(key, fr.k.v, timeout)}
           /\ stack' = ReplaceTop(stack, [fr EXCEPT !.k = key, !.ktm = 0])
    /\ UNCHANGED <<values, funnel, path, errorPath, validatorDepth, safeDepth, started,
                   finished, sig, ncalls, uncaught, added>>

\* the get trap of the wrapper the function holds, for the key made of the
\* other chain: the task of the key is cleared and the value it stands for
\* is the property looked up
DeferredReadKey ==
    /\ InDeferred
    /\ Top(stack).w.t = "wrapper"
    /\ InSafeMap(Top(stack).k)
    /\ Len(Top(stack).chain) < MaxChain
    /\ LET fr == Top(stack)
           property == fr.k
           p == resolveKey(property)
       IN  /\ timeouts' = clearTimeout(timeouts, SafeMapAt(property).timeout)
           /\ stack' = ReplaceTop(stack, [fr EXCEPT !.chain = Append(@, p),
                                                    !.w = wrapperGet(@, p),
                                                    !.k = Undef])
    /\ UNCHANGED <<inst, sig, ncalls, uncaught, added>>

\* the oldest scheduled task runs once no code of the program is running: it
\* throws its error, which nothing catches
TimerFire ==
    /\ stack = <<>>
    /\ timeouts # <<>>
    /\ timeouts' = Tail(timeouts)
    /\ uncaught' = uncaught \cup {Head(timeouts).msg}
    /\ UNCHANGED <<inst, stack, sig, ncalls, added>>

(***************************************************************************)
(* The specification with the navigation and matcher methods: validations  *)
(* of a few values that have members two levels deep, and the methods      *)
(* called from every callback and from outside                             *)
(***************************************************************************)
MemberFn == Fn(4)
VSym == Obj(<<P(ks, Num(3))>>)
SSym == Obj(<<P(ks, Fn(1))>>)
VFn == Obj(<<P(ka, MemberFn), P(kb, Num(1))>>)
SFn == Obj(<<P(kb, Fn(1)), P(symbols.other, Fn(2))>>)
ApiTopArgs ==
    {<<VNested, SNested>>, <<VArr, SArr>>, <<VSym, SSym>>, <<VFn, SFn>>, <<DeferredFn, SCb>>,
     <<VArr, SNested>>, <<VNested, SBadErrorFn>>, <<SCb>>}
ApiNestedArgs == {<<SCb>>, <<VArr, SArr>>}

\* bound on the validator calls accepted in one session of this specification
MaxApiCalls == 2

ApiMayCall == ncalls < MaxApiCalls \/ (validatorDepth = 0 /\ finished)

ApiTopCall ==
    /\ stack = <<>>
    /\ ApiMayCall
    /\ \E args \in ApiTopArgs : validator(args)

ApiNestedCall ==
    /\ InCallback
    /\ ApiMayCall
    /\ \E args \in ApiNestedArgs : validator(args)

NextApi ==
    \/ ApiTopCall
    \/ ApiNestedCall
    \/ DoInspect
    \/ InspectObjectEnter
    \/ InspectObjectResume
    \/ InspectArrayEnter
    \/ InspectArrayResume
    \/ InspectDeeperReturn
    \/ InspectKeyReturn
    \/ InspectReturn
    \/ ValidatorReturn
    \/ CallbackReturn
    \/ CallbackThrow
    \/ CallbackCatch
    \/ CallbackRethrow
    \/ Unwind
    \/ ApiRoot
    \/ \E levels \in 0..MaxUp : ApiUp(levels)
    \/ ApiValue
    \/ ApiKey
    \/ ApiIndex
    \/ ApiPath
    \/ ApiErrorPath
    \/ ApiReturn
    \/ ApiMatcher
    \/ DeferredAnchor
    \/ DeferredRead
    \/ DeferredReturn
    \/ DeferredThrow
    \/ DeferredMatcher
    \/ DeferredMatcherValue
    \/ DeferredResume
    \/ DeferredFinally
    \/ TimerFire

SpecApi == Init /\ [][NextApi]_vars

(***************************************************************************)
(* The specification of safe navigation with its timer tasks: validations  *)
(* of a map and of a sequence whose members name other members, with the   *)
(* matchers called from the callback                                       *)
(***************************************************************************)
\* a number that is not finite: no matcher takes it for a number
NaN == [t |-> "NaN"]

VKeys ==
    Obj(<<P(ka, Num(1)), P(k1, ka), P(Str("sym"), ks), P(ks, Num(4)),
          P(Str("flag"), True), P(Str("none"), Null), P(Str("nan"), NaN),
          P(Str("true"), Num(8)), P(Str("null"), Num(9)),
          P(Str("undefined"), Num(7)), P(Str("NaN"), Num(6))>>)
SKeys == Obj(<<P(ka, SCb)>>)
VList == Arr(<<Num(1), Str("0")>>)
SList == Arr(<<SCb, Str("0")>>)
SafeTopArgs == {<<VKeys, SKeys>>, <<VList, SList>>}

SafeTopCall ==
    /\ stack = <<>>
    /\ ApiMayCall
    /\ \E args \in SafeTopArgs : validator(args)

NextSafe ==
    \/ SafeTopCall
    \/ DoInspect
    \/ InspectObjectEnter
    \/ InspectObjectResume
    \/ InspectArrayEnter
    \/ InspectArrayResume
    \/ InspectDeeperReturn
    \/ InspectKeyReturn
    \/ InspectReturn
    \/ ValidatorReturn
    \/ CallbackReturn
    \/ CallbackThrow
    \/ CallbackCatch
    \/ CallbackRethrow
    \/ Unwind
    \/ ApiReturn
    \/ ApiMatcherFn
    \/ DeferredAnchor
    \/ DeferredReturn
    \/ DeferredThrow
    \/ DeferredMatcherValue
    \/ DeferredResume
    \/ DeferredFinally
    \/ DeferredDiscard
    \/ DeferredKeyAnchor
    \/ DeferredKeyRead
    \/ DeferredCoerce
    \/ DeferredReadKey
    \/ TimerFire

SpecSafe == Init /\ [][NextSafe]_vars

(***************************************************************************)
(* The specification with addMatcher: one validation of a map, with the    *)
(* methods, the matchers and addMatcher called before it, from its         *)
(* callback and after it                                                   *)
(***************************************************************************)
RegTopArgs == {<<VObjA, SObjA>>, <<SCb>>}

RegTopCall ==
    /\ stack = <<>>
    /\ ApiMayCall
    /\ \E args \in RegTopArgs : validator(args)

NextReg ==
    \/ RegTopCall
    \/ DoInspect
    \/ InspectObjectEnter
    \/ InspectObjectResume
    \/ InspectDeeperReturn
    \/ InspectKeyReturn
    \/ InspectReturn
    \/ ValidatorReturn
    \/ CallbackReturn
    \/ CallbackThrow
    \/ CallbackCatch
    \/ CallbackRethrow
    \/ Unwind
    \/ ApiRoot
    \/ \E levels \in 0..MaxUp : ApiUp(levels)
    \/ ApiValue
    \/ ApiKey
    \/ ApiIndex
    \/ ApiPath
    \/ ApiErrorPath
    \/ ApiReturn
    \/ RegMatcher
    \/ ApiAddMatcher

SpecReg == Init /\ [][NextReg]_vars

(***************************************************************************)
(* The program comparing plain values: one top-level call with a value and *)
(* a schema that is a literal or a function.                               *)
(***************************************************************************)
Big(n) == [t |-> "bigint", n |-> n]

Literals ==
    {Undef, Null, False, True, Num(0), Num(1), NaN, Str(""), Str("1"), Str("test"),
     Str("1n"), Big(1), Sym("test"), ks}
LitValues == Literals \cup {Fn(1), Fn(2), VObjA, VArr}
LitSchemas == Literals \cup {Fn(1)}

LitTopCall ==
    /\ stack = <<>>
    /\ MayCall
    /\ \E value \in LitValues, schema \in LitSchemas : validator(<<value, schema>>)

NextLit ==
    \/ LitTopCall
    \/ DoInspect
    \/ InspectReturn
    \/ ValidatorReturn
    \/ CallbackReturn
    \/ CallbackThrow
    \/ Unwind

SpecLit == Init /\ [][NextLit]_vars

(***************************************************************************)
(* The program validating maps whose own keys include the marker symbols   *)
(***************************************************************************)
VMarkedOther == Obj(<<P(ka, Num(1)), P(symbols.other, Num(2))>>)
VMarkedError == Obj(<<P(ka, Num(1)), P(symbols.error, Num(2))>>)
SMarked == Obj(<<P(ka, Fn(1)), P(symbols.other, Fn(2)), P(symbols.error, SHAPE)>>)
MarkedValues == {VObjA, VObjMix, VMarkedOther, VMarkedError}
MarkedSchemas == {SMarked, SObjOther, SObjA}

MarkedTopCall ==
    /\ stack = <<>>
    /\ MayCall
    /\ \E value \in MarkedValues, schema \in MarkedSchemas : validator(<<value, schema>>)

NextMarked ==
    \/ MarkedTopCall
    \/ DoInspect
    \/ InspectObjectEnter
    \/ InspectObjectResume
    \/ InspectDeeperReturn
    \/ InspectKeyReturn
    \/ InspectReturn
    \/ ValidatorReturn
    \/ CallbackReturn
    \/ CallbackThrow
    \/ Unwind

SpecMarked == Init /\ [][NextMarked]_vars

(***************************************************************************)
(* Properties                                                              *)
(***************************************************************************)
\* a top-level call has returned or thrown
TopEnded == stack = <<>> /\ sig.k # "none"

\* the call made in this step throws the reuse error and returns nothing
Rejected ==
    /\ sig' = Exc(ANOTHER)
    /\ stack' = stack

\* the call made in this step is taken on top of the running session
Accepted ==
    /\ sig' = NoSig
    /\ Len(stack') = Len(stack) + 2
    /\ SubSeq(stack', 1, Len(stack)) = stack
    /\ stack'[Len(stack) + 1].f = "validator"
    /\ validatorDepth' = validatorDepth + 1
    /\ UNCHANGED <<values, funnel, path, errorPath>>

\* C1 (as amended): once a top-level call has returned or thrown, every later
\* top-level call throws the reuse error and returns nothing; a validator call
\* made from inside a running callback is accepted, at any depth, on the shared
\* session state, as long as no exception has finished the session (after one,
\* it throws the reuse error too).
C1_OneTopLevelCall ==
    [][ /\ (TopEnded /\ (TopCall \/ TopCallNoValue)) => Rejected
        /\ (NestedCall /\ ~finished) => Accepted
        /\ (NestedCall /\ finished) => Rejected ]_vars

\* C1 (as stated): ... while validator calls made from inside a running callback
\* are accepted at any nesting depth.
C1_NestedAlwaysAccepted ==
    [][ /\ (TopEnded /\ (TopCall \/ TopCallNoValue)) => Rejected
        /\ NestedCall => Accepted ]_vars

\* a session with a nested call whose reuse at top level was rejected
C1_Witness ==
    /\ stack = <<>>
    /\ sig = Exc(ANOTHER)
    /\ ncalls >= 2
    /\ finished

\* C2: a validation call (top-level or nested) returns exactly false when no
\* callback of its schema returned a truthy value and none of its comparisons
\* failed, whatever falsy values the callbacks returned; every other result it
\* returns is truthy.
C2_FalseOrTruthy ==
    (TopIs("validator") /\ sig.k = "return") =>
        /\ (sig.v = False) <=> ~Top(stack).bad
        /\ (sig.v # False) => Truthy(sig.v)

\* a call whose schema is a callback is about to return false
C2_Witness ==
    /\ TopIs("validator")
    /\ sig.k = "return"
    /\ sig.v = False
    /\ Top(stack).schema = SCb
    /\ ~Top(stack).bad

Containers == {j \in 1..Len(stack) : stack[j].f \in {"inspectObject", "inspectArray"}}

\* C3: members are validated one at a time; once a member's validation gave a
\* truthy result the container returns that very value and validates no later
\* member.
C3_ShortCircuit ==
    \A j \in Containers :
        LET fr == stack[j]
            n == Len(fr.seen)
        IN  /\ \A m \in 1..(n - 1) :
                  fr.seen[m].res # Pending /\ ~Truthy(fr.seen[m].res)
            /\ (n > 0 /\ fr.seen[n].res = Pending) => fr.pc = "wait"
            /\ (n > 0 /\ fr.seen[n].res # Pending /\ Truthy(fr.seen[n].res)) =>
                  /\ j = Len(stack)
                  /\ fr.pc = "done"
                  /\ sig.k = "return"
                  /\ sig.v = fr.seen[n].res

\* the first member of a schema with several members failed with E
C3_Witness ==
    /\ TopIs("inspectObject")
    /\ Top(stack).pc = "done"
    /\ Top(stack).schema = SObjMix
    /\ Len(Top(stack).seen) = 1
    /\ Top(stack).seen[1].res = E
    /\ sig.v = E

\* C4: when a top-level validation returns a truthy error, errorPath() is
\* what path() was where the callback or comparison that produced the returned
\* error was evaluated, whatever the callbacks did with the results of their
\* nested calls.
C4_ErrorPathIsProducerPath ==
    (stack = <<>> /\ sig.k = "return" /\ Truthy(sig.v)) =>
        (~errorPath.null /\ errorPath.p = sig.org)

\* C5: after a top-level validation returned, errorPath() is null exactly when
\* the result is false; after one that threw, errorPath() is null.
C5_ErrorPathNullIffValid ==
    /\ (stack = <<>> /\ sig.k = "return") => (errorPath.null <=> sig.v = False)
    /\ (stack = <<>> /\ sig.k = "throw") => errorPath.null

\* a top-level validation returned E with an error path below the top
C5_Witness ==
    /\ stack = <<>>
    /\ sig.k = "return"
    /\ sig.v = E
    /\ ~errorPath.null
    /\ Len(errorPath.p) >= 1

\* the keys of the inspectKey calls in progress, outermost first
KeysOf(st) ==
    LET F[i \in 0..Len(st)] ==
            IF i = 0 THEN <<>>
            ELSE IF st[i].f = "inspectKey" THEN Append(F[i - 1], st[i].key)
            ELSE F[i - 1]
    IN  F[Len(st)]

\* the member of v that the keys p lead to
RECURSIVE Resolve(_, _)
Resolve(v, p) == IF p = <<>> THEN v ELSE Resolve(Get(v, Head(p)), Tail(p))

\* every nested call in progress was made on the current value of its callback
OnCurrentValue ==
    \A j \in 2..Len(stack) :
        stack[j].f = "validator" => stack[j].value = stack[j - 1].value

\* C6: path() inside a callback is the sequence of keys and indices traversed
\* from the top-level value to the callback's value, root first, through nested
\* container schemas and through callbacks that re-enter the validator alike;
\* it is empty for a callback on the top-level value, and when every re-entry
\* was made on the current value it leads from the top-level value to the
\* callback's value.
C6_PathIsRoute ==
    (TopIs("run") /\ sig.k = "none" /\ started /\ ~finished) =>
        /\ path = KeysOf(stack)
        /\ OnCurrentValue => Resolve(stack[1].value, path) = Top(stack).value

\* a callback two keys deep, reached through a callback that re-entered
C6_Witness ==
    /\ TopIs("run")
    /\ sig.k = "none"
    /\ ~finished
    /\ Len(path) = 2
    /\ Cardinality({j \in 1..Len(stack) : stack[j].f = "validator"}) >= 2
    /\ OnCurrentValue

\* 0 for the keys that are non-negative integers, 1 for other strings, 2 for symbols
Class(key) == IF IsIndexKey(key) THEN 0 ELSE IF key.t = "string" THEN 1 ELSE 2
IndexOf(key) == CHOOSE i \in 1..Len(IndexStrings) : IndexStrings[i] = key.s
DefPos(object, key) == CHOOSE i \in 1..Len(object.e) : object.e[i].key = key

\* member x is due before member y in the traversal of container frame fr
Before(fr, x, y) ==
    \/ x.ph < y.ph
    \/ /\ x.ph = y.ph
       /\ \/ Class(x.key) < Class(y.key)
          \/ /\ Class(x.key) = Class(y.key)
             /\ IF Class(x.key) = 0 THEN IndexOf(x.key) < IndexOf(y.key)
                ELSE LET o == IF x.ph = 1 THEN fr.schema ELSE fr.value
                     IN  DefPos(o, x.key) < DefPos(o, y.key)

\* C7: comparing a map with a MapShape validates every key declared in the
\* schema before any key that occurs only in the value, and in both groups the
\* integer-like keys first in ascending order, then the other string keys in
\* definition order, then the symbol keys in definition order.
C7_TraversalOrder ==
    \A j \in 1..Len(stack) :
        stack[j].f = "inspectObject" =>
            LET fr == stack[j]
                n == Len(fr.seen)
            IN  /\ \A a, b \in 1..n : a < b => Before(fr, fr.seen[a], fr.seen[b])
                /\ \A a \in 1..n :
                      /\ fr.seen[a].ph = 1 => hasProperty(fr.schema, fr.seen[a].key)
                      /\ fr.seen[a].ph = 2 =>
                            /\ hasProperty(fr.value, fr.seen[a].key)
                            /\ ~hasProperty(fr.schema, fr.seen[a].key)
                /\ (\E a \in 1..n : fr.seen[a].ph = 2) =>
                      \A i \in 1..Len(fr.schema.e) :
                          fr.schema.e[i].key \notin symbolList =>
                              \E a \in 1..n : /\ fr.seen[a].ph = 1
                                              /\ fr.seen[a].key = fr.schema.e[i].key

\* the declared key b, then the value's other keys 0, 1 and the symbol s
C7_Witness ==
    /\ TopIs("inspectObject")
    /\ Top(stack).schema = SObjOther
    /\ Top(stack).value = VObjMix
    /\ Len(Top(stack).seen) = 4
    /\ Top(stack).seen[1].key = kb
    /\ Top(stack).seen[2].key = k0
    /\ Top(stack).seen[4].key = ks

\* the value has the shape the schema of container frame fr asks for
ShapeMatches(fr) ==
    IF fr.f = "inspectObject" THEN matcher_object(fr.value) ELSE matcher_array(fr.value)

\* the members of the value that the schema of container frame fr does not cover
Uncovered(fr) ==
    IF fr.f = "inspectObject"
    THEN {k \in {fr.value.e[i].key : i \in 1..Len(fr.value.e)} : ~hasProperty(fr.schema, k)}
    ELSE {Num(i) : i \in fr.maxIndex..(Len(fr.value.e) - 1)}

\* the members container frame fr handed to the catch-remaining callback
SeenOther(fr) == {fr.seen[m].key : m \in {a \in 1..Len(fr.seen) : fr.seen[a].ph = 2}}

\* C8: for a shape-matching value, the members the schema does not cover are
\* passed, each with its key or index, to the catch-remaining callback when
\* there is one (all of them when the comparison returns false); without one
\* the comparison returns true at the first such member; when the value has no
\* such member the callback is never called and the result is that of the
\* declared members alone.
C8_CatchRemaining ==
    \A j \in Containers :
        LET fr == stack[j]
            n == Len(fr.seen)
        IN  (fr.pc # "start" /\ ShapeMatches(fr)) =>
            /\ SeenOther(fr) \subseteq Uncovered(fr)
            /\ \A m \in 1..n : fr.seen[m].ph = 2 =>
                  /\ matcher_function(fr.catchOther)
                  /\ fr.seen[m].val = Get(fr.value, fr.seen[m].key)
            /\ (fr.pc = "wait" /\ fr.seen[n].ph = 2) =>
                  /\ Len(stack) >= j + 1 => stack[j + 1] = InspectKeyFrame(fr.seen[n].key)
                  /\ Len(stack) >= j + 2 =>
                        stack[j + 2] = InspectFrame(fr.catchOther, fr.seen[n].val)
                  /\ Len(stack) >= j + 3 =>
                        /\ stack[j + 3].f = "run"
                        /\ stack[j + 3].callback = fr.catchOther
                        /\ stack[j + 3].value = fr.seen[n].val
                        /\ stack[j + 3].key = fr.seen[n].key
            /\ (fr.pc = "done" /\ j = Len(stack) /\ sig.k = "return") =>
                  /\ sig.v = False => SeenOther(fr) = Uncovered(fr)
                  /\ ( /\ matcher_undefined(fr.catchOther)
                       /\ Uncovered(fr) # {}
                       /\ \A m \in 1..n : ~Truthy(fr.seen[m].res) ) =>
                        (sig.v = True /\ SeenOther(fr) = {})
                  /\ Uncovered(fr) = {} =>
                        /\ SeenOther(fr) = {}
                        /\ sig.v = IF n > 0 /\ Truthy(fr.seen[n].res)
                                   THEN fr.seen[n].res ELSE False

\* a comparison returns false after the callback took three uncovered members
C8_Witness ==
    /\ stack # <<>>
    /\ Top(stack).f \in {"inspectObject", "inspectArray"}
    /\ Top(stack).pc = "done"
    /\ sig.k = "return"
    /\ sig.v = False
    /\ Cardinality(SeenOther(Top(stack))) = 3

\* C9: a key declared in the schema but absent from the map value, and a
\* regular sequence position beyond the value's length, is validated with the
\* value undefined, under that key or index.
C9_AbsentMemberIsUndefined ==
    \A j \in Containers :
        LET fr == stack[j]
            n == Len(fr.seen)
        IN  \A m \in 1..n :
                (fr.seen[m].ph = 1 /\ ~hasProperty(fr.value, fr.seen[m].key)) =>
                    /\ fr.seen[m].val = Undef
                    /\ (m = n /\ fr.pc = "wait" /\ Len(stack) >= j + 2) =>
                          /\ stack[j + 1] = InspectKeyFrame(fr.seen[m].key)
                          /\ stack[j + 2].value = Undef

\* the schema is a MapShape or SequenceShape that passes its check
WellFormedShape(schema) ==
    \/ matcher_object(schema) /\ validateObjectSchema(schema).error = ""
    \/ matcher_array(schema) /\ validateArraySchema(schema).error = ""

\* the override configured in a well-formed shape, or undefined
Override(schema) ==
    IF matcher_object(schema) THEN validateObjectSchema(schema).shapeError
    ELSE validateArraySchema(schema).shapeError

\* the value does not have the shape the schema asks for
ShapeMismatch(schema, value) ==
    \/ matcher_object(schema) /\ ~matcher_object(value)
    \/ matcher_array(schema) /\ ~matcher_array(value)

\* C10: when the value has not the shape of the schema, the comparison returns
\* the configured override, or true when there is none, without validating any
\* member, and the error path recorded for it is the path of the mismatching
\* value.
C10_MismatchResultAndPath ==
    [][ /\ \A j \in Containers :
              (stack[j].pc # "start" /\ ~ShapeMatches(stack[j])) =>
                  (stack[j].pc = "done" /\ stack[j].seen = <<>>)
        /\ ( /\ TopIs("inspect")
             /\ sig.k = "return"
             /\ WellFormedShape(Top(stack).schema)
             /\ ShapeMismatch(Top(stack).schema, Top(stack).value) ) =>
              /\ sig.v = IF matcher_defined(Override(Top(stack).schema))
                         THEN Override(Top(stack).schema) ELSE True
              /\ errorPath' = PathAt(path) ]_vars

\* the elements of a sequence schema after its end marker (or first hole)
AfterMarker(schema) ==
    SubSeq(schema.e, EndIndex(schema, 0) + 2, Len(schema.e))

\* a sequence schema that is malformed in one of the ways the documentation lists
MalformedSequence(schema) ==
    LET after == AfterMarker(schema)
        funcs == {i \in 1..Len(after) : matcher_function(after[i])}
        errors == {i \in 1..Len(after) : ~matcher_function(after[i]) /\ after[i] # Hole
                                         /\ Truthy(after[i])}
    IN  \/ Len(after) > 2
        \/ \E i \in 1..Len(after) : after[i] = symbols.end \/ after[i] = Hole
        \/ Cardinality(funcs) > 1
        \/ Cardinality(errors) > 1
        \/ \E i \in 1..Len(after) : ~matcher_function(after[i]) /\ ~Truthy(after[i])
        \/ \E i \in 1..Len(schema.e) : schema.e[i] \in {symbols.other, symbols.error}

\* a map schema that is malformed: a catch-other entry (one that is not
\* undefined) that is no function, a shape error (not undefined) that is a
\* function or falsy, or the end marker as a key
MalformedMap(schema) ==
    \/ hasProperty(schema, symbols.other)
         /\ matcher_defined(Get(schema, symbols.other))
         /\ ~matcher_function(Get(schema, symbols.other))
    \/ hasProperty(schema, symbols.error)
         /\ matcher_defined(Get(schema, symbols.error))
         /\ (matcher_function(Get(schema, symbols.error))
               \/ ~Truthy(Get(schema, symbols.error)))
    \/ hasProperty(schema, symbols.end)

Malformed(schema) ==
    \/ matcher_array(schema) /\ MalformedSequence(schema)
    \/ matcher_object(schema) /\ MalformedMap(schema)

\* the comparison with a container schema is about to start
Evaluating ==
    /\ stack # <<>>
    /\ Top(stack).f \in {"inspectObject", "inspectArray"}
    /\ Top(stack).pc = "start"
    /\ sig.k = "none"

SessionCleared ==
    /\ finished
    /\ values = <<>>
    /\ funnel = <<>>
    /\ path = <<>>
    /\ errorPath = NullPath

\* C12: an exception that leaves a schema callback leaves the session finished
\* with empty stacks and a null error path, and travels up the call stack
\* unchanged; a callback that caught it and returns normally makes run throw
\* 'Cannot proceed with validation after an error'; the top-level call of a
\* session finished this way ends by throwing, never with a result.
C12_CallbackExceptionEndsSession ==
    [][ /\ (TopIs("run") /\ sig'.k = "throw" /\ stack' = Pop(stack)) => SessionCleared'
        /\ (sig.k = "throw" /\ stack # <<>> /\ stack' = Pop(stack)) => sig' = sig
        /\ (finished /\ CallbackReturn) => sig' = Exc(CANTPROCEED)
        /\ (finished /\ stack # <<>>) =>
              /\ SessionCleared
              /\ sig.k # "return"
              /\ sig'.k # "return"
              /\ stack' = <<>> => sig'.k = "throw" ]_vars

\* a top-level call has ended with 'Cannot proceed with validation after an
\* error': a callback caught the exception of a callback below it and returned
C12_Witness ==
    /\ stack = <<>>
    /\ sig = Exc(CANTPROCEED)
    /\ SessionCleared

\* the messages of the checks that end in resetAndThrow
SchemaViolations ==
    {NONFUNC, NONVALID, UNEXPECTED_OBJECT, UNEXPECTED_OTHER, UNEXPECTED_ERROR, MANYEXTRA,
     MANYENDS, MANYFUNCS, MANYERRORS, FALSY}
ResetViolations ==
    SchemaViolations
    \cup {UNRETURNED, ANOTHER, NOCONTEXT, ROOT_OUT, UP_OUT, VALUE_OUT, KEY_OUT, KEY_ARRAY,
          INDEX_OUT, INDEX_OBJECT}

\* the messages of a matcher called against its calling conventions
MatcherViolations == {ARGS} \cup {OUT(name) : name \in MatcherNames}

\* this step raises an exception with message msg
Raised(msg) == sig'.k = "throw" /\ sig'.msg = msg /\ sig' # sig

\* C13 (as amended): every protocol violation throws at the point of misuse.
\* A malformed schema, a deferred function that returns no wrapper, the reuse
\* of a finished session and an out-of-context value(), key(), index(), root()
\* or up() leave the session finished and cleared, and no validation on it
\* returns a result afterwards; a matcher called with more than one argument,
\* or with none outside any context, throws and leaves the session as it was.
C13_ViolationsThrow ==
    [][ /\ \A msg \in ResetViolations : Raised(msg) => SessionCleared'
        /\ \A msg \in MatcherViolations : Raised(msg) => (inst' = inst /\ stack' = stack)
        /\ (ApiRoot /\ funnel = <<>>) => sig' = Exc(ROOT_OUT)
        /\ \A n \in 0..MaxUp : (ApiUp(n) /\ Len(funnel) <= n) => sig' = Exc(UP_OUT)
        /\ (ApiValue /\ values = <<>>) => sig' = Exc(VALUE_OUT)
        /\ (ApiKey /\ path = <<>>) => sig' = Exc(KEY_OUT)
        /\ (ApiIndex /\ path = <<>>) => sig' = Exc(INDEX_OUT)
        /\ (ApiTopCall /\ finished) => sig' = Exc(ANOTHER)
        /\ (Evaluating /\ Malformed(Top(stack).schema)) => sig'.msg \in SchemaViolations
        /\ \A name \in MatcherNames :
              /\ (UserCode /\ enhanceMatcher(name, <<Num(1), Num(2)>>)) => sig' = Exc(ARGS)
              /\ (UserCode /\ values = <<>> /\ enhanceMatcher(name, <<>>)) =>
                    sig' = Exc(OUT(name))
        /\ finished => finished'
        /\ (finished /\ stack # <<>>) => (sig'.k # "return" /\ sig.k # "return") ]_vars

\* C13: every protocol violation, the misuse of a matcher's calling
\* conventions included, leaves the session finished.
C13_EveryViolationFinishes ==
    [][ \A msg \in ResetViolations \cup MatcherViolations : Raised(msg) => finished' ]_vars

\* a callback has called a matcher with two arguments: the call has thrown and
\* the session is still running
C13_Witness ==
    /\ TopIs("run")
    /\ sig = Exc(ARGS)
    /\ started
    /\ ~finished
    /\ values # <<>>

\* a top-level validation call is running
InProgress == stack # <<>>

\* C14 (as amended): path() returns the path exactly while the session is
\* started and not finished, which happens only inside a running top-level
\* call, and throws otherwise; errorPath() returns exactly when the session is
\* finished and throws otherwise, so it throws on a fresh instance and during
\* a validation that no exception has finished; neither changes the session.
C14_PathPhases ==
    [][ /\ ApiPath =>
              /\ IF started /\ ~finished
                 THEN sig' = Api("path", Undef, Arr(path))
                 ELSE sig' = Exc(IF finished THEN PATH_AFTER ELSE PATH_BEFORE)
              /\ sig'.k = "api" => InProgress
              /\ inst' = inst
        /\ ApiErrorPath =>
              /\ IF finished
                 THEN sig' = Api("errorPath", Undef,
                                 IF errorPath.null THEN Null ELSE Arr(errorPath.p))
                 ELSE sig' = Exc(ERRPATH_BEFORE)
              /\ (ncalls = 0 /\ ~finished) => sig'.k = "throw"
              /\ (InProgress /\ ~finished) => sig'.k = "throw"
              /\ inst' = inst
        /\ (started /\ ~finished) => InProgress
        /\ (InProgress /\ stack' = <<>>) => finished' ]_vars

\* C14: path() succeeds only while a top-level call is running and throws
\* when none is; errorPath() never succeeds while a top-level call is running.
C14_ByCalls ==
    [][ /\ ApiPath => ((sig'.k = "api" => InProgress) /\ (~InProgress => sig'.k = "throw"))
        /\ ApiErrorPath => (InProgress => sig'.k = "throw") ]_vars

\* errorPath() has returned to a callback of a top-level call that is still running
C14_Witness ==
    /\ TopIs("run")
    /\ sig.k = "api"
    /\ sig.op = "errorPath"
    /\ finished

\* the containers under validation, outermost first: the values of the
\* inspectObject and inspectArray calls on the call stack
RECURSIVE ContainersOf(_)
ContainersOf(st) ==
    IF st = <<>> THEN <<>>
    ELSE LET rest == ContainersOf(Pop(st))
         IN  IF Top(st).f \in {"inspectObject", "inspectArray"}
             THEN Append(rest, Top(st).value)
             ELSE rest
Enclosings == ContainersOf(stack)

\* the n-th enclosing container, counted from the innermost one
Enclosing(n) == Enclosings[Len(Enclosings) - n]

\* the function passed to a matcher is about to choose its anchor
AtAnchor == InDeferred /\ Top(stack).anchor = ""

\* C15: in a callback whose path has length d, up(n) with n < d returns the
\* n-th enclosing container counted from the innermost one, up(d - 1) returns
\* what root() returns, and up(n) with n >= d throws 'up() call navigates
\* above any object or array' and finishes the session; in deferred
\* navigation up(n) hands out a wrapper of the same container, and throws
\* and finishes the session for the same n.
C15_UpLevels ==
    [][ \A n \in 0..MaxUp :
          LET d == Len(path)
          IN  /\ (InCallback /\ ApiUp(n)) =>
                    IF n < d
                    THEN /\ d <= Len(Enclosings)
                         /\ sig' = Api("up", Num(n), Enclosing(n))
                         /\ inst' = inst
                         /\ n = d - 1 => validator_root = Returns(Enclosing(n))
                    ELSE sig' = Exc(UP_OUT) /\ SessionCleared'
              /\ (AtAnchor /\ DeferredNavigate(UpCall(n))) =>
                    IF n < d
                    THEN /\ d <= Len(Enclosings)
                         /\ Top(stack').w = Wrap(Enclosing(n))
                         /\ Top(stack').base = Enclosing(n)
                         /\ inst' = inst /\ sig' = sig
                         /\ n = d - 1 => validator_root = Returns(Wrap(Enclosing(n)))
                    ELSE sig' = Exc(UP_OUT) /\ SessionCleared' ]_vars

\* up(1) has returned the outer of two containers to a callback
C15_Witness ==
    /\ TopIs("run")
    /\ sig.k = "api"
    /\ sig.op = "up"
    /\ sig.arg = Num(1)
    /\ Len(path) = 2
    /\ sig.v = Enclosings[1]
    /\ Enclosings[1] # Enclosings[2]

\* the innermost running inspectObject or inspectArray call
InnerFrame == stack[CHOOSE j \in Containers : \A k \in Containers : k <= j]

\* the key of the member the innermost container is validating
InnerEntry == InnerFrame.seen[Len(InnerFrame.seen)].key

\* C16: in a callback the innermost path entry is the key of the member that
\* the innermost container is validating and is the second argument the
\* callback received; key() returns it when that container is a map (the
\* entry is a string or a symbol) and index() when it is a sequence (the entry
\* is a number); each throws and finishes the session when called for the
\* other kind, and when there is no path entry, which is the case exactly
\* when no container encloses the current value or the session is finished.
C16_KeyAndIndex ==
    [][ /\ InCallback =>
              /\ (path = <<>>) = (finished \/ Containers = {})
              /\ path # <<>> =>
                    /\ path[Len(path)] = InnerEntry
                    /\ path[Len(path)] = Top(stack).key
                    /\ IF InnerFrame.f = "inspectObject"
                       THEN matcher_string(InnerEntry) \/ matcher_symbol(InnerEntry)
                       ELSE matcher_number(InnerEntry)
        /\ (InCallback /\ ApiKey) =>
              IF path = <<>> THEN sig' = Exc(KEY_OUT) /\ SessionCleared'
              ELSE IF InnerFrame.f = "inspectObject"
              THEN sig' = Api("key", Undef, InnerEntry) /\ inst' = inst
              ELSE sig' = Exc(KEY_ARRAY) /\ SessionCleared'
        /\ (InCallback /\ ApiIndex) =>
              IF path = <<>> THEN sig' = Exc(INDEX_OUT) /\ SessionCleared'
              ELSE IF InnerFrame.f = "inspectArray"
              THEN sig' = Api("index", Undef, InnerEntry) /\ inst' = inst
              ELSE sig' = Exc(INDEX_OBJECT) /\ SessionCleared' ]_vars

\* key() has returned a symbol key to the callback of that member
C16_Witness ==
    /\ TopIs("run")
    /\ sig = Api("key", Undef, ks)
    /\ Top(stack).key = ks
    /\ ~finished

\* the value the innermost running callback was called with
RECURSIVE InnermostRun(_)
InnermostRun(st) == IF Top(st).f = "run" THEN Top(st) ELSE InnermostRun(Pop(st))
Cur == InnermostRun(stack).value

\* a matcher call that returned v to its caller
Matched(name, args, v) == Api("matcher", MatcherCall(name, args, "direct"), v)

Member(v, p) ==
    IF v.t = "object" /\ \E i \in 1..Len(v.e) : v.e[i].key = p
    THEN v.e[CHOOSE i \in 1..Len(v.e) : v.e[i].key = p].val
    ELSE IF v.t = "array" /\ p.t = "string"
            /\ \E i \in 1..Len(v.e) : IndexStrings[i] = p.s /\ v.e[i] # Hole
    THEN v.e[CHOOSE i \in 1..Len(v.e) : IndexStrings[i] = p.s]
    ELSE Undef

\* the real value a chain of reads from v leads to
RECURSIVE ResolveChain(_, _)
ResolveChain(v, chain) ==
    IF chain = <<>> THEN v ELSE ResolveChain(Member(v, Head(chain)), Tail(chain))

\* the real value the anchor of the running navigation function stands for
AnchorValue(fr) ==
    CASE fr.anchor = "root" -> Enclosings[1]
      [] fr.anchor = "up" -> Enclosing(fr.arg.n)
      [] fr.anchor = "value" -> Cur

\* a matcher has returned to a callback the result of a navigation function
DeferredResult ==
    /\ TopIs("run")
    /\ sig.k = "api"
    /\ sig.op = "matcher"
    /\ sig.arg.mode = "deferred"

C19_NonWrapperThrows ==
    [][ /\ \A v \in NonWrappers :
              (InDeferred /\ DeferredReturns(v)) =>
                 sig' = Exc(UNRETURNED) /\ SessionCleared' /\ stack' = Pop(stack)
        /\ (AtAnchor /\ DeferredReturns(Top(stack).w)) =>
              sig' = Exc(UNRETURNED) /\ SessionCleared' /\ stack' = Pop(stack)
        /\ (finished /\ stack # <<>>) =>
              /\ finished'
              /\ sig'.k # "return"
              /\ stack' = <<>> => sig'.k = "throw" ]_vars

\* the callback has caught the exception of a matcher whose function
\* returned no wrapper, and goes on in a finished session
C19_Witness ==
    /\ TopIs("run")
    /\ sig = Exc(UNRETURNED)
    /\ finished
    /\ values = <<>>

\* the navigation function holds a wrapper it got from root(), up(n) or value()
Navigating == InDeferred /\ Top(stack).anchor # ""

\* C20: in deferred navigation every anchor that does not throw hands out a
\* wrapper of the real value, and no read on a wrapper throws or changes the
\* session: a read yields a wrapper of the member that the key names among
\* the own members of the map or sequence underneath, and a wrapper of
\* undefined when there is no such member or the value underneath is neither;
\* a read on a wrapper of undefined yields a wrapper of undefined, so the
\* wrapper held after a chain with a missing link unwraps to undefined.
C20_SafeChain ==
    [][ /\ Navigating =>
              LET fr == Top(stack)
              IN  /\ fr.w = Wrap(ResolveChain(fr.base, fr.chain))
                  /\ fr.base = AnchorValue(fr)
                  /\ \A k \in 1..Len(fr.chain) :
                        ResolveChain(fr.base, SubSeq(fr.chain, 1, k)) = Undef =>
                           unwrap(fr.w) = Undef
        /\ (Navigating /\ DeferredRead) =>
              LET fr == Top(stack)
                  p == Top(stack').chain[Len(fr.chain) + 1]
              IN  /\ Top(stack').chain = Append(fr.chain, p)
                  /\ Top(stack').w = Wrap(Member(fr.w.v, p))
                  /\ fr.w.v = Undef => Top(stack').w = Wrap(Undef)
                  /\ ~(matcher_object(fr.w.v) \/ matcher_array(fr.w.v)) =>
                        Top(stack').w = Wrap(Undef)
                  /\ sig' = NoSig
                  /\ inst' = inst
                  /\ Len(stack') = Len(stack) ]_vars

\* the function has read two properties, the first of which the value under
\* the anchor does not have, and holds a wrapper of undefined
C20_Witness ==
    /\ Navigating
    /\ Len(Top(stack).chain) = 2
    /\ matcher_object(Top(stack).base)
    /\ Member(Top(stack).base, Top(stack).chain[1]) = Undef
    /\ Top(stack).w = Wrap(Undef)

(***************************************************************************)
(* C21: the tasks scheduled with wrappers                                  *)
(***************************************************************************)
\* what the code's scheduling warrants: the engine and the code that called a
\* method go on, every callback and every function passed to a matcher ends,
\* and a task that is due runs once the program is idle
EngineStep ==
    \/ DoInspect
    \/ InspectObjectEnter
    \/ InspectObjectResume
    \/ InspectArrayEnter
    \/ InspectArrayResume
    \/ InspectDeeperReturn
    \/ InspectKeyReturn
    \/ InspectReturn
    \/ ValidatorReturn
    \/ Unwind
    \/ ApiReturn
    \/ CallbackCatch
    \/ CallbackRethrow
    \/ DeferredResume
    \/ DeferredFinally
CallbackEnds == CallbackReturn \/ CallbackThrow
DeferredEnds == DeferredReturn \/ DeferredThrow
SpecSafeLive ==
    /\ SpecSafe
    /\ WF_vars(EngineStep)
    /\ SF_vars(CallbackEnds)
    /\ SF_vars(DeferredEnds)
    /\ WF_vars(TimerFire)

Tasks(ts) == {ts[i] : i \in 1..Len(ts)}

\* the step hands a new wrapper of root(), up() or value() to the function
\* passed to a matcher, as its anchor, as the start of a key, or as the
\* argument of a matcher
AnchorMade ==
    \/ /\ InDeferred /\ TopIs("enhanceMatcher")' /\ Len(stack') = Len(stack)
       /\ \/ Top(stack).anchor = "" /\ Top(stack').w.t = "wrapper"
          \/ Top(stack).k = Undef /\ Top(stack').k.t = "wrapper"
    \/ /\ InDeferred /\ sig'.k = "api"
       /\ sig'.op = "matcher" /\ sig'.arg.args # <<>> /\ sig'.arg.args[1].t = "wrapper"

\* the step in which enhanceMatcher unwraps the wrapper the function returned
UnwrapStep ==
    /\ InDeferred /\ sig'.k = "api" /\ sig'.op = "matcher" /\ sig'.arg.mode = "deferred"

\* the step in which the wrapper held for a key is made a key
CoerceStep ==
    /\ InDeferred /\ Top(stack).k.t = "wrapper"
    /\ TopIs("enhanceMatcher")' /\ Len(stack') = Len(stack)
    /\ \E e \in safeMap' : e.key = Top(stack').k

C21_Scheduled ==
    AnchorMade =>
        \E t \in Tasks(timeouts') \ Tasks(timeouts) :
            /\ t.msg = NOTCONSUMED
            /\ Tasks(timeouts) \subseteq Tasks(timeouts')

C21_Cancelled ==
    /\ UnwrapStep => Top(stack).tm \notin Handles(timeouts')
    /\ CoerceStep => Top(stack).ktm \notin Handles(timeouts')

C21_NotOtherwise ==
    \A t \in Tasks(timeouts) \ Tasks(timeouts') :
        t.msg = NOTCONSUMED =>
            \/ UnwrapStep /\ t.id = Top(stack).tm
            \/ CoerceStep /\ t.id = Top(stack).ktm
            \/ /\ stack = <<>> /\ stack' = <<>>
               /\ NOTCONSUMED \in uncaught'
               /\ UNCHANGED <<inst, sig, ncalls>>

\* C21: a wrapper that root(), up() or value() hands out in safe mode comes with
\* a task of its own; the task is cleared when the wrapper, or one read from
\* it, is unwrapped by the matcher or made a key, and in no other way; a task
\* that is not cleared runs in the end, when no call is in progress, throws
\* the 'not consumed' error and leaves the session and the result of the
\* validation as they are.
C21_LeakDiagnostic ==
    /\ [][C21_Scheduled /\ C21_Cancelled /\ C21_NotOtherwise]_vars
    /\ (timeouts # <<>>) ~> (timeouts = <<>>)

\* a validation has returned its result, and the task of a wrapper that was
\* never consumed has run after it
C21_Witness ==
    /\ stack = <<>>
    /\ finished
    /\ sig.k = "return"
    /\ NOTCONSUMED \in uncaught
    /\ timeouts = <<>>

(***************************************************************************)
(* C22: addMatcher                                                         *)
(***************************************************************************)
\* the predicate and the name a call of addMatcher gives
PredicateOf(args) == IF args = <<>> THEN Undef ELSE args[Len(args)]
NameOf(args) ==
    IF Len(args) = 2 THEN args[1]
    ELSE IF Len(args) = 1 THEN Str(FnName(args[1]))
    ELSE Undef
OneParameter(args) ==
    /\ Len(args) \in {1, 2}
    /\ matcher_function(PredicateOf(args))
    /\ FnLength(PredicateOf(args)) = 1

\* the members the instance is known to have: the built-in and the added
\* matchers, the methods, and the markers
KnownMembers ==
    {Str(n) : n \in {"number", "string", "boolean", "null", "undefined", "defined",
                     "bigint", "symbol", "function", "array", "object", "get",
                     "root", "up", "value", "key", "index", "path", "errorPath",
                     "addMatcher", "other", "error", "end"}}
    \cup {a.name : a \in added}

AddMatcherErrors ==
    {TYPE, NONFUNC2, NONNAMEDFUNC, NUMARGSA, NUMARGSM}
    \cup {EXIST(NameOf(args)) :
             args \in {a \in AddMatcherArgs :
                          matcher_string(NameOf(a)) \/ matcher_symbol(NameOf(a))}}

C22_Outcome ==
    \A args \in AddMatcherArgs :
        LET r == validator_addMatcher(args)
        IN  /\ r.o.ok =>
                /\ OneParameter(args)
                /\ NameOf(args) \notin KnownMembers
                /\ r.reg = {Registered(NameOf(args), PredicateOf(args))}
            /\ ~(OneParameter(args) /\ NameOf(args) \notin KnownMembers) => ~r.o.ok
            /\ ~r.o.ok => r.reg = {} /\ ~r.o.reset

C22_Step ==
    /\ (sig'.k = "api" /\ sig'.op = "addMatcher") =>
          /\ UserCode
          /\ added' = added \cup validator_addMatcher(sig'.arg).reg
          /\ added' # added
          /\ UNCHANGED <<inst, stack>>
    /\ (UserCode /\ sig'.k = "throw" /\ sig'.msg \in AddMatcherErrors) =>
          UNCHANGED <<added, inst, stack>>
    /\ added' # added => sig'.k = "api" /\ sig'.op = "addMatcher"
    /\ added \subseteq added'

\* C22: addMatcher registers the predicate, under the name given or under the
\* function's own name, only if the predicate declares exactly one parameter
\* and the name is not a member of the instance yet; in every other case it
\* throws and registers nothing; and no call of addMatcher, before, during or
\* after a validation, changes a member registered earlier or the session.
C22_AddMatcher == [](C22_Outcome) /\ [][C22_Step]_vars

\* after a validation a name registered in its course is refused, and the
\* matchers registered earlier are still there
C22_Witness ==
    /\ stack = <<>>
    /\ finished
    /\ sig.k = "throw"
    /\ sig.msg = EXIST(Str("isOne"))
    /\ added = {Registered(Str("isOne"), IsOne), Registered(Str("isTwo"), IsTwo)}

(***************************************************************************)
(* C23: the stacks of the session                                          *)
(***************************************************************************)
\* the number of calls of the given functions that are in progress
CallsOf(fs) == Cardinality({i \in 1..Len(stack) : stack[i].f \in fs})

\* every stack has one entry for every call that pushed it and has not returned
C23_Mirrors ==
    started =>
        /\ Len(values) = CallsOf({"run"})
        /\ Len(funnel) = CallsOf({"inspectObject", "inspectArray"})
        /\ Len(path) = CallsOf({"inspectKey"})

\* keys are pushed inside containers only, one for the member being inspected
C23_Alternate ==
    started =>
        /\ Len(path) <= Len(funnel)
        /\ Len(funnel) <= Len(path) + 1
        /\ TopIs("run") => Len(funnel) = Len(path)
        /\ TopIs("run") => Len(values) >= 1

\* C23 (as amended): during a validation `values` holds one entry for every
\* callback in progress, `funnel` one for every container entered and `path`
\* one for every member entered; path is never longer than funnel and at most
\* one shorter, and while a callback runs both have the same length, so that
\* it is the containers followed by the current value that are one more than
\* the keys.
C23_Stacks == C23_Mirrors /\ C23_Alternate

\* a callback two members deep: two containers, two keys, one value
C23_Witness ==
    /\ started
    /\ TopIs("run")
    /\ sig.k = "none"
    /\ Len(funnel) = 2
    /\ Len(path) = 2
    /\ Len(values) = 1

\* C23 (as stated): while a callback runs, the stack of values (values, or
\* else funnel) has exactly one more entry than the stack of keys.
C23_OneMoreValueThanKeys ==
    (started /\ TopIs("run")) =>
        \/ Len(values) = Len(path) + 1
        \/ Len(funnel) = Len(path) + 1

(***************************************************************************)
(* C24: literals                                                           *)
(***************************************************************************)
\* typeof, with null a type of its own
TypeOf(v) == IF v.t = "NaN" THEN "number" ELSE v.t
\* a === b
StrictlyEqual(a, b) ==
    /\ TypeOf(a) = TypeOf(b)
    /\ a.t # "NaN" /\ b.t # "NaN"
    /\ CASE a.t = "boolean" -> a.b = b.b
         [] a.t \in {"number", "bigint"} -> a.n = b.n
         [] a.t \in {"string", "symbol"} -> a.s = b.s
         [] a.t = "function" -> a.id = b.id
         [] OTHER -> a.t \in {"undefined", "null"}

\* the top-level call returns to its caller
TopReturns ==
    /\ Len(stack) = 1
    /\ stack[1].f = "validator"
    /\ stack' = <<>>
    /\ sig'.k = "return"

\* a schema that is no function, object or array is compared with ===
C24_Literal ==
    (TopReturns /\ stack[1].schema \in Literals) =>
        sig'.v = Bool(~StrictlyEqual(stack[1].value, stack[1].schema))

\* two literals of different types differ, whichever is the schema
C24_CrossType ==
    \A a \in Literals, b \in Literals :
        TypeOf(a) # TypeOf(b) => literalMismatch(a, b) /\ literalMismatch(b, a)

\* a function given as a schema is called with the value, and what it returns
\* is the result, whether or not the value is that function
C24_FunctionIsCallback ==
    /\ (TopIs("inspect") /\ sig.k = "none" /\ matcher_function(Top(stack).schema)) =>
           /\ TopIs("run")'
           /\ Top(stack').callback = Top(stack).schema
           /\ values' = Append(values, Top(stack).value)
    /\ (TopReturns /\ matcher_function(stack[1].schema)) =>
           sig'.v \in {False} \cup TruthyResults

\* C24 (as amended): a schema node that is no function, object or array is
\* compared with the value by ===, so two literals of different types give
\* true whichever is the schema, symbols and bigints included; a function
\* given as a schema is never compared: it is called with the value.
C24_LiteralIdentity ==
    [](C24_CrossType) /\ [][C24_Literal /\ C24_FunctionIsCallback]_vars

\* the string '1' validated against the number 1 is about to give true
C24_Witness ==
    /\ Len(stack) = 1
    /\ stack[1].f = "validator"
    /\ stack[1].value = Str("1")
    /\ stack[1].schema = Num(1)
    /\ sig.k = "return"
    /\ sig.v = True

\* C24 (as stated): symbols, bigints and functions used as schema nodes are
\* compared with the value by identity, as any other literal is.
C24_FunctionsByIdentity ==
    [][(TopReturns /\ stack[1].schema \in Literals \cup {Fn(1)}) =>
           sig'.v = Bool(~StrictlyEqual(stack[1].value, stack[1].schema))]_vars

(***************************************************************************)
(* C25: a nested call leaves the context as it found it                    *)
(***************************************************************************)
\* the calls of the given functions that are in progress, outermost first
Calls(fs) == SelectSeq(stack, LAMBDA fr : fr.f \in fs)

\* the stacks hold what the calls in progress pushed, and nothing else
C25_ContextOfCalls ==
    started =>
        /\ values = [i \in 1..Len(Calls({"run"})) |-> Calls({"run"})[i].value]
        /\ funnel = [i \in 1..Len(Calls({"inspectObject", "inspectArray"})) |->
                        Calls({"inspectObject", "inspectArray"})[i].value]
        /\ path = [i \in 1..Len(Calls({"inspectKey"})) |-> Calls({"inspectKey"})[i].key]
        /\ TopIs("run") => Top(stack).key = currentKey

\* what a call in progress was called with does not change while it waits
C25_CallsKeep ==
    \A i \in 1..Len(stack) :
        (i < Len(stack) /\ i <= Len(stack')) =>
            /\ stack'[i].f = stack[i].f
            /\ stack[i].f \in {"run", "inspectObject", "inspectArray"} =>
                   stack'[i].value = stack[i].value
            /\ stack[i].f \in {"run", "inspectKey"} => stack'[i].key = stack[i].key

\* the nested call hands its result to the callback and touches no stack
C25_NestedReturn ==
    (TopIs("validator") /\ Len(stack) > 1 /\ sig.k = "return" /\ stack' # stack) =>
        /\ UNCHANGED <<values, funnel, path, started, finished, safeDepth>>
        /\ TopIs("run")'
        /\ Top(stack').got = Append(stack[Len(stack) - 1].got, [v |-> sig.v, org |-> sig.org])

\* when the top-level call has returned the three stacks are empty
C25_EmptyAtEnd ==
    (stack = <<>> /\ sig.k = "return") =>
        values = <<>> /\ funnel = <<>> /\ path = <<>>

\* C25: while no exception has ended the session, values, funnel and path are
\* exactly what the calls in progress have pushed, a call in progress keeps
\* its value and key, and a nested call that returns, with false or with an
\* error, gives the callback its result and changes none of them: value(),
\* key(), path(), root() and up(n) give after the nested call what they gave
\* before it; after the top-level call has returned the stacks are empty.
C25_NestedCallFrame ==
    /\ [](C25_ContextOfCalls /\ C25_EmptyAtEnd)
    /\ [][C25_CallsKeep /\ C25_NestedReturn]_vars

\* a callback for a member goes on after a nested call gave it an error
C25_Witness ==
    /\ started
    /\ TopIs("run")
    /\ sig.k = "none"
    /\ Len(path) >= 1
    /\ Len(Top(stack).got) >= 1
    /\ Truthy(Top(stack).got[1].v)
    /\ values = <<Top(stack).value>>

(***************************************************************************)
(* C26: a deferred chain used as the key of another                        *)
(***************************************************************************)
Decimal == <<"0", "1", "2", "3", "4", "5", "6", "7", "8", "9">>

\* the members of container c that value r names when it is used as a key
NamedBy(c, r) ==
    IF c.t = "object"
    THEN {i \in 1..Len(c.e) :
            \/ r.t \in {"string", "symbol"} /\ c.e[i].key = r
            \/ r.t = "number" /\ r.n \in 0..9 /\ c.e[i].key = Str(Decimal[r.n + 1])}
    ELSE IF c.t = "array"
    THEN {i \in 1..Len(c.e) :
            /\ c.e[i] # Hole
            /\ \/ r.t = "number" /\ r.n = i - 1
               \/ r.t = "string" /\ r.s = Decimal[i]}
    ELSE {}
MemberAt(c, i) == IF c.t = "object" THEN c.e[i].val ELSE c.e[i]

\* the function looks up, in the wrapper it holds, the key made of its other chain
KeyLookup ==
    /\ InDeferred
    /\ TopIs("enhanceMatcher")'
    /\ Top(stack).k.t = "symbol"
    /\ Top(stack').k = Undef
    /\ Top(stack').chain # Top(stack).chain

\* the value the chain that was made the key had resolved to
Resolved == (CHOOSE e \in safeMap : e.key = Top(stack).k).value

C26_Lookup ==
    KeyLookup =>
        LET c == Top(stack).w.v
            r == Resolved
        IN  /\ Top(stack').chain = Append(Top(stack).chain, r)
            /\ \A i \in NamedBy(c, r) : Top(stack').w = Wrap(MemberAt(c, i))
            /\ NamedBy(c, r) = {} => Top(stack').w = Wrap(Undef)
            /\ r.t \in {"undefined", "null", "boolean", "NaN", "object", "array"} =>
                   Top(stack').w = Wrap(Undef)

\* the key is the value the inner chain had when it was made a key
C26_KeyIsResolvedValue ==
    (InDeferred /\ TopIs("enhanceMatcher")' /\ Top(stack).k.t = "wrapper"
        /\ Top(stack').k.t = "symbol") =>
        /\ Top(stack').k \notin {e.key : e \in safeMap}
        /\ \E e \in safeMap' : e.key = Top(stack').k /\ e.value = Top(stack).k.v

\* C26: inside one function a chain may be made the key of another.  The
\* outer lookup uses the value the inner chain resolved to: it gives the own
\* member that value names when the value is a string, a finite number or a
\* symbol (in an array: a number or a string of digits), and nothing when
\* there is no such member or the value is undefined, null, a boolean, NaN
\* or a container, also when the object has a member named 'undefined',
\* 'null', 'true' or 'NaN'.
C26_ChainAsKey == [][C26_Lookup /\ C26_KeyIsResolvedValue]_vars

\* root()[root().flag]: the flag is true, the object has a member 'true', and
\* the lookup gives nothing
C26_Witness ==
    /\ InDeferred
    /\ Top(stack).anchor = "root"
    /\ Top(stack).base = VKeys
    /\ Top(stack).chain = <<True>>
    /\ Top(stack).w = Wrap(Undef)
    /\ hasProperty(VKeys, Str("true"))

(***************************************************************************)
(* C27: the depth of safe navigation                                       *)
(***************************************************************************)
\* C27: safeDepth is the number of matcher(f) calls in progress: never
\* negative, and zero when none is running, however f ended; root(), up() and
\* value() hand out wrappers while one is running and plain values otherwise.
C27_SafeDepthCounts ==
    /\ safeDepth = CallsOf({"enhanceMatcher"})
    /\ safeDepth >= 0
    /\ (sig.k = "api" /\ sig.op \in {"root", "up", "value"}) =>
           (sig.v.t = "wrapper") = (CallsOf({"enhanceMatcher"}) > 0)

(***************************************************************************)
(* C28: the lifecycle of the session                                       *)
(***************************************************************************)
\* idle, running, finished
Phase == IF finished THEN 2 ELSE IF started THEN 1 ELSE 0

\* a top-level call is made, or the one in progress ends
TopCalled == stack = <<>> /\ sig' # sig /\ (sig'.k = "none" \/ sig'.msg \in {ANOTHER, NOCONTEXT})
TopEnds == stack # <<>> /\ stack' = <<>>

C28_Forward ==
    /\ Phase' >= Phase
    /\ finished => (finished' /\ ~started')
    /\ (Phase = 0 /\ Phase' = 1) => (stack = <<>> /\ TopIs("inspect")')
    /\ TopEnds => (finished' /\ sig'.k \in {"return", "throw"})
    /\ (TopCalled /\ stack' = <<>>) => (finished' /\ sig'.k = "throw")

\* between calls the session is idle, and then no call was ever accepted, or
\* it is finished
C28_Phases ==
    /\ ~(started /\ finished)
    /\ stack = <<>> => Phase \in {0, 2}
    /\ (stack = <<>> /\ Phase = 0) => (ncalls = 0 /\ sig.k # "return")
    /\ Phase = 1 => stack # <<>>

\* C28: the session goes from idle to running to finished and never back:
\* nothing makes a finished session idle or running again, a session is
\* started by a top-level call only, and when a top-level call has returned
\* or thrown the session is finished.
C28_Lifecycle == [](C28_Phases) /\ [][C28_Forward]_vars

\* a second top-level call on a session that has returned a result: it is
\* refused and the session stays finished
C28_Witness ==
    /\ stack = <<>>
    /\ finished
    /\ ~started
    /\ sig = Exc(ANOTHER)
    /\ ncalls >= 1

(***************************************************************************)
(* C29: every own key of the value is validated                            *)
(***************************************************************************)
OwnKeys(object) == {object.e[i].key : i \in 1..Len(object.e)}
\* the validations of key k that container frame fr has started
ValidationsOf(fr, k) == {m \in 1..Len(fr.seen) : fr.seen[m].key = k}

\* C29: when the comparison of a map with a MapShape returns false, every own
\* key of the value was validated exactly once, with the value's member,
\* against the schema entry of that key or by the catch-remaining callback;
\* this goes for the own keys that are marker symbols the schema has, too.
C29_EveryOwnKeyValidated ==
    (TopIs("inspectObject") /\ Top(stack).pc = "done" /\ sig.k = "return" /\ sig.v = False) =>
        LET fr == Top(stack)
        IN  \A k \in OwnKeys(fr.value) :
                /\ Cardinality(ValidationsOf(fr, k)) = 1
                /\ \A m \in ValidationsOf(fr, k) :
                      /\ fr.seen[m].val = Get(fr.value, k)
                      /\ ~Truthy(fr.seen[m].res)

(***************************************************************************)
(* C30: the methods called on an instance that was never used              *)
(***************************************************************************)
Idle == stack = <<>> /\ ~started /\ ~finished

\* key(), index(), root(), up() and value() throw and finish the session
C30_NavigationFinishes ==
    (Idle /\ (ApiKey \/ ApiIndex \/ ApiRoot \/ ApiValue \/ \E n \in 0..MaxUp : ApiUp(n))) =>
        /\ sig'.k = "throw"
        /\ sig'.msg \in {KEY_OUT, INDEX_OUT, ROOT_OUT, UP_OUT, VALUE_OUT}
        /\ finished' /\ ~started'
        /\ stack' = <<>>

\* a top-level call on a finished session throws the reuse error
C30_ThenRefused ==
    (stack = <<>> /\ finished /\ RegTopCall) =>
        /\ sig' = Exc(ANOTHER)
        /\ stack' = <<>>
        /\ finished'

\* a matcher without arguments, path() and errorPath() throw, addMatcher
\* throws or registers, and the session stays as it is
C30_OthersLeaveIdle ==
    /\ (Idle /\ (ApiPath \/ ApiErrorPath
                   \/ \E name \in MatcherNames \cup AddedNames : enhanceMatcher(name, <<>>))) =>
           /\ sig'.k = "throw"
           /\ sig'.msg \in {PATH_BEFORE, ERRPATH_BEFORE}
                             \cup {OUT(name) : name \in MatcherNames \cup AddedNames}
           /\ UNCHANGED inst
           /\ Idle'
    /\ (Idle /\ ApiAddMatcher) => (UNCHANGED inst /\ Idle')

\* a top-level call with a value on an idle session is accepted
C30_ThenAccepted ==
    (Idle /\ RegTopCall) =>
        \/ /\ sig' = NoSig
           /\ started' /\ ~finished'
           /\ Len(stack') = 2
           /\ stack'[1].f = "validator"
        \/ sig' = Exc(NOCONTEXT) /\ finished'

\* C30: on an instance that has validated nothing yet, key(), index(),
\* root(), up() and value() throw and leave the session finished, so that
\* the top-level call that follows throws the reuse error; a matcher called
\* without arguments, path(), errorPath() and addMatcher leave the session
\* idle, and the top-level call that follows is accepted.
C30_IdleCalls ==
    [][C30_NavigationFinishes /\ C30_ThenRefused /\ C30_OthersLeaveIdle
         /\ C30_ThenAccepted]_vars

\* key() has thrown on an instance that has validated nothing, and the
\* session is finished
C30_Witness ==
    /\ stack = <<>>
    /\ ncalls = 0
    /\ finished
    /\ ~started
    /\ sig = Exc(KEY_OUT)

====
